---- MODULE Spec2Model ----
(***************************************************************************)
(* A model of workie's background automation core:                         *)
(*   - the hook execution engine (manager/manager.go: ExecuteHooks,        *)
(*     executeHookCommand), checked under SpecHooks;                       *)
(*   - the configuration validator and the paths that hand commands to the *)
(*     runner (config/config.go, cmd/hooks.go, manager/hooks_claude.go),   *)
(*     checked under SpecConfig;                                           *)
(*   - the conflict scanner (CheckRebaseConflicts and helpers), checked    *)
(*     under SpecScan;                                                     *)
(*   - the watch service (manager/watch_server.go), checked under          *)
(*     SpecWatch.                                                          *)
(* Each specification moves its own group of variables and leaves the      *)
(* other groups at their initial, idle value.                              *)
(***************************************************************************)
EXTENDS Integers, Sequences, FiniteSets, Bags, TLC

VARIABLES
    \* ---- hook execution engine -------------------------------------------
    hooks,          \* ExecuteHooks' argument: the stage's command list
    workDirExists,  \* whether os.Stat(workDir) succeeds
    pc,             \* position of the goroutine running ExecuteHooks
    i,              \* 1-based index of the range loop over hooks
    summary,        \* HookSummary: the counters and Results
    retErr,         \* ExecuteHooks' return value
    gor,            \* per command index: state of the goroutine running cmd.Run
    done,           \* per command index: content of the buffered channel done
    killed,         \* indices whose process was sent cmd.Process.Kill()
    elapsed,        \* time since the start of the command being waited for
    started,        \* history: indices handed to executeHookCommand, in order
    \* ---- configuration and the paths to the runner ------------------------
    cfgHooks,       \* the hooks section of the configuration file, per stage
    cfgState,       \* "file": not loaded, "loaded": wm.Config set, "rejected"
    validatedCmds,  \* history: <<stage, command>> pairs validateHookCommands accepted
    runStage,       \* the stage whose list is being run, or "none"
    runVia,         \* the function running it: "ExecuteHooks" or "executeHooksForDecision"
    runIdx,         \* index of the loop over the stage's list
    handed,         \* history: <<stage, command>> pairs handed to executeHookCommand
    \* ---- conflict scanner -------------------------------------------------
    repo,           \* the repository: which refs git can resolve
    inventory,      \* the worktrees git worktree list reports
    scanPc,         \* position of the goroutine running CheckRebaseConflicts
    mainBranch,     \* CheckRebaseConflicts' local mainBranch
    worktrees,      \* CheckRebaseConflicts' local worktrees
    wtIdx,          \* 1-based index of the range loop over worktrees
    conflicts,      \* CheckRebaseConflicts' local conflicts
    scanRet,        \* CheckRebaseConflicts' return values, err "none" before it returns
    probes,         \* history: <<worktree index, error>> of each merge-tree run
    gitRuns,        \* history: <<directory, arguments>> of each git process run
    checkouts,      \* each worktree's branch, HEAD commit, index and files
    \* ---- watch service ----------------------------------------------------
    options,        \* notification settings: Watch.NotifyOnConflicts,
                    \* options.NotifyMethod, Watch.BranchesToIgnore
    mu,             \* ws.mu: whether the write lock is held, the number of readers
    lastCheck,      \* ws.lastCheck
    lastConflicts,  \* ws.lastConflicts
    currentConflicts, \* ws.currentConflicts
    checkCount,     \* ws.checkCount
    now,            \* the clock time.Now() reads
    wpc,            \* per goroutine that runs performCheck: its position
    local,          \* per such goroutine: performCheck's checkNum and conflicts
    ticker,         \* the ticker: made or not, stopped or not, its channel C
    requests,       \* number of ticks produced and POST /check requests served
    ticksReceived,  \* history: number of ticks runPeriodicCheck received
    loopStarted,    \* history: number of scans runPeriodicCheck started
    cancelled,      \* whether ctx is cancelled
    completed,      \* history: the scans that swapped their result in
    sent,           \* history: bag of <<scan, branch>>, one per system notification
    rpc,            \* position of the goroutine serving GET /status
    statusRead,     \* handleStatus' status under construction
    resp,           \* history: the last response to GET /status or /conflicts
    \* ---- watch service: Start and its environment --------------------------
    listener,       \* ws.server: "starting", "serving", "failed" to bind, "closed"
    startPc,        \* position of the goroutine running Start
    startErr,       \* Start's return value, "none" before it returns
    remote,         \* whether git fetch origin can reach the remote
    checkResp,      \* history: the last response to a request to /check
    \* ---- PreToolUse decision ----------------------------------------------
    dCfg,           \* number of claude_pre_tool_use hooks, ai_decision.strict_mode,
                    \* ai.enabled, the --ai flag
    dpc,            \* position of ExecuteClaudePreToolUseHooks
    hookResults,    \* executeHooksForDecision's results
    llm,            \* history: whether the LLM was unused, failed or answered
    decision,       \* the decision made
    printed,        \* the decision written to stdout
    dErr            \* ExecuteClaudePreToolUseHooks' return value

hookVars == <<hooks, workDirExists, pc, i, summary, retErr, gor, done, killed,
              elapsed, started>>

configVars == <<cfgHooks, cfgState, validatedCmds, runStage, runVia, runIdx, handed>>

scanVars == <<repo, inventory, scanPc, mainBranch, worktrees, wtIdx, conflicts,
              scanRet, probes, gitRuns, checkouts>>

watchVars == <<options, mu, lastCheck, lastConflicts, currentConflicts, checkCount,
               now, wpc, local, ticker, requests, ticksReceived, loopStarted,
               cancelled, completed, sent, rpc, statusRead, resp,
               listener, startPc, startErr, remote, checkResp>>

\* The state of the watch service that Start and the bind of the listener
\* leave alone.
checkVars == <<options, mu, lastCheck, lastConflicts, currentConflicts, checkCount,
               now, wpc, local, ticker, requests, ticksReceived, loopStarted,
               cancelled, completed, sent, rpc, statusRead, resp>>

\* The state of the watch service that the steps of performCheck, of the
\* loop and of the read handlers leave alone.
serviceVars == <<listener, startPc, startErr, remote, checkResp>>

decisionVars == <<dCfg, dpc, hookResults, llm, decision, printed, dErr>>

vars == <<hookVars, configVars, scanVars, watchVars, decisionVars>>

notHookVars == <<configVars, scanVars, watchVars, decisionVars>>

notConfigVars == <<hookVars, scanVars, watchVars, decisionVars>>

notScanVars == <<hookVars, configVars, watchVars, decisionVars>>

notWatchVars == <<hookVars, configVars, scanVars, decisionVars>>

notDecisionVars == <<hookVars, configVars, scanVars, watchVars>>

----------------------------------------------------------------------------
(* Bounds of the model.                                                    *)

\* Longest command list of a stage.
MaxHooks == 2
\* getHookTimeout(), in ticks of model time: the configured timeout_minutes.
HookTimeout == 2
\* Ticks of model time between the timer's nominal expiry and its firing.
TimerSlack == 1
\* Longest command list of a stage of a configuration file.
MaxStageLen == 2
\* Largest number of worktrees of the repository.
MaxWorktrees == 2
\* Largest number of scans asked for after the initial one, by a tick of the
\* ticker or by a POST /check.
MaxRequests == 1

(* Program constants.                                                      *)

\* result.ExitCode of a timed-out command.
TimeoutExitCode == 124

\* The clock stops here; beyond HookTimeout + TimerSlack only a runner that
\* failed to time out can get.
MaxElapsed == 2 * HookTimeout + TimerSlack + 1

----------------------------------------------------------------------------
(* Strings are sequences of one-character strings, so that trimming and    *)
(* substring search are computed rather than assumed.                      *)

IsSpace(c) == c \in {" ", "\t", "\n", "\r"}

RECURSIVE TrimLeft(_)
TrimLeft(s) ==
    IF s = <<>> THEN s
    ELSE IF IsSpace(Head(s)) THEN TrimLeft(Tail(s)) ELSE s

RECURSIVE TrimRight(_)
TrimRight(s) ==
    IF s = <<>> THEN s
    ELSE IF IsSpace(s[Len(s)]) THEN TrimRight(SubSeq(s, 1, Len(s) - 1)) ELSE s

\* strings.TrimSpace
TrimSpace(s) == TrimRight(TrimLeft(s))

\* strings.ContainsAny
ContainsAny(s, chars) == \E k \in 1..Len(s) : s[k] \in chars

\* The commands a stage may hold: empty, whitespace only, a plain command
\* (run as an argument vector), a padded plain command, a command with a
\* shell operator (run through sh -c).
HookPool ==
    { <<>>, <<" ", "\t">>, <<"a">>, <<"a", "|", "b">> }

HookLists == UNION { [1..n -> HookPool] : n \in 0..MaxHooks }

----------------------------------------------------------------------------
(* parseCommand: whether the command goes through sh -c or is run as an  *)
(* argument vector, or is refused as empty.                                *)

\* The backquote, which cannot be written in a string of the module.
Backquote == "backquote"

ShellOperators ==
    {"|", "&", ";", "<", ">", "(", ")", "$", Backquote, "{", "}", "*", "?", "[", "]", "~"}

parseCommand(command) ==
    IF TrimSpace(command) = <<>> THEN "error"
    ELSE IF ContainsAny(TrimSpace(command), ShellOperators) THEN "shell"
    ELSE "direct"

(* What cmd.Run() can return, as sent on the channel done:                 *)
(*   "nil"       the process exited with status 0                          *)
(*   "exit"      *exec.ExitError, the process exited with a status /= 0    *)
(*   "signal"    *exec.ExitError, the process was ended by a signal        *)
(*   "notfound"  *exec.ExitError of sh -c, which found no such command     *)
(*   "starterr"  any other error: the process could not be started         *)
RunErrors == {"nil", "exit", "signal", "notfound", "starterr"}

\* The status with which sh exits when it finds no such command.
NotFoundExitCode == 127

\* ExitStatus() of an *exec.ExitError: the status of an exited process, -1
\* for a process ended by a signal.
ExitStatus(err) ==
    IF err = "signal" THEN -1
    ELSE IF err = "notfound" THEN NotFoundExitCode
    ELSE 1

\* The name m is that of no executable file on the PATH.
BinaryMissing(command) ==
    TrimSpace(command) # <<>> /\ Head(TrimSpace(command)) = "m"

\* The commands of a stage with missing binaries: blank, run as an argument
\* vector, run through sh -c.
MissingPool == { <<>>, <<"m">>, <<"m", " ", "*">> }

MissingLists == UNION { [1..n -> MissingPool] : n \in 0..MaxHooks }

\* What sh writes on its standard error when it finds no such command, as a
\* sequence of words; the output of the commands themselves is not
\* modelled.
ShellNotFound == <<"sh:", "1:", "m:", "not", "found">>

\* A timer armed with twice the timeout.
TimerDueLate(e) == e >= 2 * HookTimeout

\* time.After(timeout): the timer may fire once the timeout has elapsed.
TimerDue(e) == e >= HookTimeout

\* cmd.Process, set by cmd.Start() when the process was started.
ProcessStarted(k) ==
    \/ gor[k] = "running"
    \/ gor[k] = "returned" /\ done[k] # "starterr"

\* The process of command k is alive.
ProcessRunning(k) == gor[k] = "running"

EmptySummary ==
    [SuccessCount |-> 0, FailedCount |-> 0, SkippedCount |-> 0, Results |-> <<>>]

\* executeHookCommand, lines 803-827: the result built from what the select
\* received.
CompletedResult(k, command, execErr, duration) ==
    [Index    |-> k,
     Command  |-> TrimSpace(command),
     Success  |-> execErr = "nil",
     Duration |-> duration,
     ExitCode |-> IF execErr \in {"exit", "signal", "notfound"}
                  THEN ExitStatus(execErr) ELSE 0,
     Error    |-> execErr,
     Stderr   |-> IF execErr = "notfound" THEN ShellNotFound ELSE <<>>,
     TimedOut |-> FALSE]

TimedOutResult(k, command) ==
    [Index    |-> k,
     Command  |-> TrimSpace(command),
     Success  |-> FALSE,
     Duration |-> HookTimeout,
     ExitCode |-> TimeoutExitCode,
     Error    |-> "timeout",
     Stderr   |-> <<>>,
     TimedOut |-> TRUE]

\* A record that counts every result as a success.
RecordedAsSuccess(s, result) ==
    [s EXCEPT !.Results = Append(@, result),
              !.SuccessCount = @ + 1]

\* ExecuteHooks, lines 616-623: append the result and update the counters.
Recorded(s, result) ==
    [s EXCEPT !.Results = Append(@, result),
              !.SuccessCount = IF result.Success THEN @ + 1 ELSE @,
              !.FailedCount = IF result.Success THEN @ ELSE @ + 1]

\* A blank command counted as a failed one.
SkipRecordedAsFailed(s) == [s EXCEPT !.FailedCount = @ + 1]

\* ExecuteHooks, line 601: summary.SkippedCount++.
SkipRecorded(s) == [s EXCEPT !.SkippedCount = @ + 1]

\* A stage that fails as soon as one command failed.
StageErrorAnyFailed(s) ==
    IF s.FailedCount > 0 THEN "all_failed" ELSE "nil"

\* ExecuteHooks, lines 639-644: the error of the stage.
StageError(s) ==
    IF s.FailedCount > 0 /\ s.SuccessCount = 0 THEN "all_failed" ELSE "nil"

\* A loop that stops at the first failed command.
NextIndexAbortOnFailure(k, result) ==
    IF result.Success THEN k + 1 ELSE Len(hooks) + 1

\* ExecuteHooks, line 596: the index the range loop moves to after index k.
NextIndex(k, result) == k + 1

----------------------------------------------------------------------------
(* The hook execution engine.                                              *)

\* ExecuteHooks is about to be called.
HooksZero ==
    /\ pc = "entry"
    /\ i = 0
    /\ summary = EmptySummary
    /\ retErr = "none"
    /\ gor = [k \in 1..MaxHooks |-> "none"]
    /\ done = [k \in 1..MaxHooks |-> "empty"]
    /\ killed = {}
    /\ elapsed = 0
    /\ started = <<>>

HooksStart ==
    /\ hooks \in HookLists
    /\ workDirExists \in BOOLEAN
    /\ HooksZero

\* A stage whose commands name missing binaries, in an existing directory.
MissingStart ==
    /\ hooks \in MissingLists
    /\ workDirExists = TRUE
    /\ HooksZero

\* An entry that does not look at the working directory.
EntryReturnUnchecked(list, dirExists) ==
    IF Len(list) = 0 THEN "nil" ELSE "none"

\* ExecuteHooks, lines 560-578: what it returns before the loop, "none"
\* when it goes on to the loop.
EntryReturn(list, dirExists) ==
    IF Len(list) = 0 THEN "nil"
    ELSE IF ~dirExists THEN "workdir"
    ELSE "none"

\* ExecuteHooks, lines 559-594: the empty list, the working directory check.
ExecuteHooks_Enter ==
    /\ UNCHANGED notHookVars
    /\ pc = "entry"
    /\ IF EntryReturn(hooks, workDirExists) # "none"
       THEN /\ retErr' = EntryReturn(hooks, workDirExists)
            /\ pc' = "returned"
            /\ i' = i
       ELSE /\ retErr' = retErr
            /\ pc' = "loop"
            /\ i' = 1
    /\ UNCHANGED <<hooks, workDirExists, summary, gor, done, killed, elapsed, started>>

\* ExecuteHooks, lines 598-603: a blank command is counted and skipped.
ExecuteHooks_Skip ==
    /\ UNCHANGED notHookVars
    /\ pc = "loop"
    /\ i <= Len(hooks)
    /\ TrimSpace(hooks[i]) = <<>>
    /\ summary' = SkipRecorded(summary)
    /\ i' = i + 1
    /\ UNCHANGED <<hooks, workDirExists, pc, retErr, gor, done, killed, elapsed, started>>

\* ExecuteHooks line 615 and executeHookCommand lines 749-784: the command
\* is parsed, the goroutine running cmd.Run is spawned and the caller blocks
\* in the select.
ExecuteHooks_Run ==
    /\ UNCHANGED notHookVars
    /\ pc = "loop"
    /\ i <= Len(hooks)
    /\ TrimSpace(hooks[i]) # <<>>
    /\ parseCommand(hooks[i]) # "error"
    /\ gor' = [gor EXCEPT ![i] = "spawned"]
    /\ started' = Append(started, i)
    /\ elapsed' = 0
    /\ pc' = "select"
    /\ UNCHANGED <<hooks, workDirExists, i, summary, retErr, done, killed>>

\* done <- cmd.Run(): the buffered send never blocks; a caller blocked in
\* the select for this command is handed the value and takes that case.
Send(k, err) ==
    /\ gor' = [gor EXCEPT ![k] = "returned"]
    /\ done' = [done EXCEPT ![k] = err]
    /\ pc' = IF pc = "select" /\ i = k THEN "gotDone" ELSE pc

\* cmd.Run calls cmd.Start: the process starts, in the directory cmd.Dir
\* when it exists and from the executable file when there is one (sh for a
\* command run through the shell), or Run returns the error.
Goroutine_Start(k) ==
    /\ UNCHANGED notHookVars
    /\ gor[k] = "spawned"
    /\ \/ /\ workDirExists
          /\ parseCommand(hooks[k]) = "shell" \/ ~BinaryMissing(hooks[k])
          /\ gor' = [gor EXCEPT ![k] = "running"]
          /\ UNCHANGED <<done, pc>>
       \/ Send(k, "starterr")
    /\ UNCHANGED <<hooks, workDirExists, i, summary, retErr, killed, elapsed, started>>

\* cmd.Run's cmd.Wait returns: the process exited by itself, or was killed;
\* sh exits with the status of a command not found.
Goroutine_Wait(k) ==
    /\ UNCHANGED notHookVars
    /\ gor[k] = "running"
    /\ \E err \in IF k \in killed THEN {"signal"}
                  ELSE IF BinaryMissing(hooks[k]) THEN {"notfound"}
                  ELSE {"nil", "exit"} : Send(k, err)
    /\ UNCHANGED <<hooks, workDirExists, i, summary, retErr, killed, elapsed, started>>

\* The channel of time.After(timeout) fires while the caller is blocked.
Timer_Fire ==
    /\ UNCHANGED notHookVars
    /\ pc = "select"
    /\ TimerDue(elapsed)
    /\ pc' = "gotTimeout"
    /\ UNCHANGED <<hooks, workDirExists, i, summary, retErr, gor, done, killed,
                   elapsed, started>>

\* Time passes while the caller is blocked in the select; a due timer fires
\* no later than TimerSlack after its expiry.
Clock_Tick ==
    /\ UNCHANGED notHookVars
    /\ pc = "select"
    /\ elapsed < MaxElapsed
    /\ ~TimerDue(elapsed - TimerSlack)
    /\ elapsed' = elapsed + 1
    /\ UNCHANGED <<hooks, workDirExists, pc, i, summary, retErr, gor, done, killed, started>>

\* executeHookCommand lines 785-787 and 803-827, ExecuteHooks lines 616-632:
\* the command completed within the timeout.
Select_Done ==
    /\ UNCHANGED notHookVars
    /\ pc = "gotDone"
    /\ LET result == CompletedResult(i, hooks[i], done[i], elapsed)
       IN /\ summary' = Recorded(summary, result)
          /\ i' = NextIndex(i, result)
    /\ pc' = "loop"
    /\ UNCHANGED <<hooks, workDirExists, retErr, gor, done, killed, elapsed, started>>

\* executeHookCommand lines 788-801 and 803-827, ExecuteHooks lines 616-632:
\* the command timed out.
Select_Timeout ==
    /\ UNCHANGED notHookVars
    /\ pc = "gotTimeout"
    /\ killed' = IF ProcessStarted(i) THEN killed \cup {i} ELSE killed
    /\ LET result == TimedOutResult(i, hooks[i])
       IN /\ summary' = Recorded(summary, result)
          /\ i' = NextIndex(i, result)
    /\ pc' = "loop"
    /\ UNCHANGED <<hooks, workDirExists, retErr, gor, done, elapsed, started>>

\* ExecuteHooks, lines 634-644: the loop is over.
ExecuteHooks_Return ==
    /\ UNCHANGED notHookVars
    /\ pc = "loop"
    /\ i > Len(hooks)
    /\ retErr' = StageError(summary)
    /\ pc' = "returned"
    /\ UNCHANGED <<hooks, workDirExists, i, summary, gor, done, killed, elapsed, started>>

\* The working directory is removed between two commands of the stage.
WorkDir_Removed ==
    /\ UNCHANGED notHookVars
    /\ pc = "loop"
    /\ workDirExists
    /\ workDirExists' = FALSE
    /\ UNCHANGED <<hooks, pc, i, summary, retErr, gor, done, killed, elapsed, started>>

NextHooks ==
    \/ ExecuteHooks_Enter
    \/ ExecuteHooks_Skip
    \/ ExecuteHooks_Run
    \/ \E k \in 1..MaxHooks : Goroutine_Start(k)
    \/ \E k \in 1..MaxHooks : Goroutine_Wait(k)
    \/ Timer_Fire
    \/ Clock_Tick
    \/ Select_Done
    \/ Select_Timeout
    \/ ExecuteHooks_Return

\* A stage whose working directory may be removed while it runs.
NextStage ==
    \/ NextHooks
    \/ WorkDir_Removed


----------------------------------------------------------------------------
(* The configuration validator (config/config.go).                         *)

UpperCase ==
    <<"A", "B", "C", "D", "E", "F", "G", "H", "I", "J", "K", "L", "M",
      "N", "O", "P", "Q", "R", "S", "T", "U", "V", "W", "X", "Y", "Z">>

LowerCase ==
    <<"a", "b", "c", "d", "e", "f", "g", "h", "i", "j", "k", "l", "m",
      "n", "o", "p", "q", "r", "s", "t", "u", "v", "w", "x", "y", "z">>

\* strings.ToLower
ToLower(s) ==
    [k \in 1..Len(s) |->
        IF \E n \in 1..26 : UpperCase[n] = s[k]
        THEN LowerCase[CHOOSE n \in 1..26 : UpperCase[n] = s[k]]
        ELSE s[k]]

\* strings.Contains
Contains(s, sub) ==
    \E k \in 0..(Len(s) - Len(sub)) : SubSeq(s, k + 1, k + Len(sub)) = sub

\* strings.Count of a one-character string
Count(s, c) == Cardinality({k \in 1..Len(s) : s[k] = c})

\* strings.HasSuffix
HasSuffix(s, suffix) ==
    Len(s) >= Len(suffix) /\ SubSeq(s, Len(s) - Len(suffix) + 1, Len(s)) = suffix

\* validateCommandSecurity, lines 302-319.
dangerousPatterns ==
    {
      <<"r", "m", " ", "-", "r", "f", " ", "/">>,
      <<"r", "m", " ", "-", "r", "f", " ", "/", "*">>,
      <<":", "(", ")", "{", " ", ":", "|", ":", "&", " ", "}", ";", ":">>,
      <<"c", "u", "r", "l", " ", "|", " ", "s", "h">>,
      <<"w", "g", "e", "t", " ", "|", " ", "s", "h">>,
      <<"c", "u", "r", "l", " ", "|", " ", "b", "a", "s", "h">>,
      <<"w", "g", "e", "t", " ", "|", " ", "b", "a", "s", "h">>,
      <<"d", "d", " ", "i", "f", "=", "/", "d", "e", "v", "/", "r", "a", "n", "d", "o", "m">>,
      <<"m", "k", "f", "s">>,
      <<"f", "d", "i", "s", "k">>,
      <<"f", "o", "r", "m", "a", "t", " ", "c", ":">>,
      <<"d", "e", "l", " ", "/", "f", " ", "/", "s", " ", "/", "q", " ", "c", ":", "\\">>,
      <<"d", "e", "l", "t", "r", "e", "e">>
    }

\* validateCommandSecurity, lines 328-332.
suspiciousNetworkPatterns ==
    {
      <<"n", "c", " ", "-", "l">>,
      <<"n", "c", "a", "t", " ", "-", "l">>,
      <<"n", "e", "t", "c", "a", "t", " ", "-", "l">>,
      <<"p", "y", "t", "h", "o", "n", " ", "-", "m", " ", "h", "t", "t", "p", ".", "s", "e", "r", "v", "e", "r">>,
      <<"p", "y", "t", "h", "o", "n", "3", " ", "-", "m", " ", "h", "t", "t", "p", ".", "s", "e", "r", "v", "e", "r">>,
      <<"p", "h", "p", " ", "-", "S">>
    }

\* validateCommandSecurity, lines 341-343.
privilegePatterns ==
    {
      <<"s", "u", "d", "o", " ", "s", "u">>,
      <<"s", "u", "d", "o", " ", "-", "i">>,
      <<"s", "u", " ", "-">>,
      <<"s", "u", "d", "o", " ", "b", "a", "s", "h">>,
      <<"s", "u", "d", "o", " ", "s", "h">>
    }

\* validateCommandSecurity, lines 352-355.
systemModificationPatterns ==
    {
      <<"/", "e", "t", "c", "/", "p", "a", "s", "s", "w", "d">>,
      <<"/", "e", "t", "c", "/", "s", "h", "a", "d", "o", "w">>,
      <<"/", "e", "t", "c", "/", "h", "o", "s", "t", "s">>,
      <<"/", "e", "t", "c", "/", "s", "u", "d", "o", "e", "r", "s">>,
      <<"c", ":", "\\", "w", "i", "n", "d", "o", "w", "s", "\\", "s", "y", "s", "t", "e", "m", "3", "2">>,
      <<"/", "S", "y", "s", "t", "e", "m", "/", "L", "i", "b", "r", "a", "r", "y">>
    }

\* A lowered command that is searched for the pattern as it is written.
validateCommandSecurity(cmd) ==
    LET cmdLower == ToLower(cmd)
    IN  IF \E p \in dangerousPatterns : Contains(cmdLower, p) THEN "dangerous"
        ELSE IF \E p \in suspiciousNetworkPatterns : Contains(cmdLower, p) THEN "network"
        ELSE IF \E p \in privilegePatterns : Contains(cmdLower, p) THEN "privilege"
        ELSE IF \E p \in systemModificationPatterns : Contains(cmdLower, p) THEN "system_file"
        ELSE "ok"

\* A control character other than tab, newline and carriage return, which
\* cannot be written in a string of the module.
ControlChar == "control"

\* validateCommandFormat, lines 367-432.
validateCommandFormat(cmd) ==
    IF Count(cmd, "'") % 2 # 0 THEN "single_quotes"
    ELSE IF Count(cmd, "\"") % 2 # 0 THEN "double_quotes"
    ELSE IF Count(cmd, "(") - Count(cmd, ")") # 0 THEN "parentheses"
    ELSE IF Count(cmd, "{") - Count(cmd, "}") # 0 THEN "braces"
    ELSE IF Count(cmd, "[") - Count(cmd, "]") # 0 THEN "brackets"
    ELSE IF \E k \in 1..Len(cmd) : cmd[k] = ControlChar THEN "control_character"
    ELSE IF HasSuffix(cmd, <<"\\">>) THEN "trailing_backslash"
    ELSE "ok"

\* validateHookCommands, lines 256-294: the loop from index k on, with the
\* commands seen so far; "ok" or the first error.
RECURSIVE validateHookCommandsFrom(_, _, _)
validateHookCommandsFrom(commands, k, seenCommands) ==
    IF k > Len(commands) THEN "ok"
    ELSE LET raw == commands[k]
             cmd == TrimSpace(raw)
         IN  IF Len(raw) > 0 /\ raw[1] \in {" ", "\t"} THEN "leading_whitespace"
             ELSE IF cmd = <<>> THEN "empty"
             ELSE IF cmd \in seenCommands THEN "duplicate"
             ELSE IF Len(cmd) > 1000 THEN "too_long"
             ELSE IF validateCommandSecurity(cmd) # "ok" THEN validateCommandSecurity(cmd)
             ELSE IF validateCommandFormat(cmd) # "ok" THEN validateCommandFormat(cmd)
             ELSE validateHookCommandsFrom(commands, k + 1, seenCommands \cup {cmd})

validateHookCommands(commands) == validateHookCommandsFrom(commands, 1, {})

\* validateHooks, lines 237-250: the lists handed to validateHookCommands.
ValidatedStages == <<"post_create", "pre_remove", "post_cd">>

\* getHooksByType (cmd/hooks.go) and the post_cd list: the stages of a
\* configuration.
Stages ==
    {"post_create", "pre_remove", "post_cd",
     "claude_pre_tool_use", "claude_post_tool_use", "claude_notification",
     "claude_user_prompt_submit", "claude_stop", "claude_subagent_stop",
     "claude_pre_compact"}

\* The stages whose list some caller passes to ExecuteHooks: post_create
\* (manager.go:424), pre_remove (cmd/remove.go:100), claude_notification
\* (notifications.go:139) and every type of getHooksByType (cmd/hooks.go:172).
ExecuteHooksStages == Stages \ {"post_cd"}

\* The stage run by executeHooksForDecision (hooks_claude.go:33).
DecisionStages == {"claude_pre_tool_use"}

\* validateHooks, lines 226-253: "ok" or the first error.
RECURSIVE validateHooksFrom(_, _)
validateHooksFrom(h, n) ==
    IF n > Len(ValidatedStages) THEN "ok"
    ELSE IF validateHookCommands(h[ValidatedStages[n]]) # "ok"
         THEN validateHookCommands(h[ValidatedStages[n]])
         ELSE validateHooksFrom(h, n + 1)

validateHooks(h) ==
    IF Len(h["post_create"]) + Len(h["pre_remove"]) + Len(h["post_cd"]) > 20
    THEN "too_many"
    ELSE validateHooksFrom(h, 1)

\* The <<stage, command>> pairs a successful validateHooks has checked.
ValidatedPairs(h) ==
    UNION {{<<ValidatedStages[n], TrimSpace(h[ValidatedStages[n]][k])>> :
                k \in 1..Len(h[ValidatedStages[n]])} : n \in 1..Len(ValidatedStages)}

----------------------------------------------------------------------------
(* Loading a configuration and running its stages.                         *)

\* Commands of a configuration file: a harmless one, a recursive deletion of
\* the root, a PHP development server, a filesystem formatting in capitals,
\* a command with leading white space, an empty one.
ConfigPool ==
    { <<"l", "s">>,
      <<"r", "m", " ", "-", "r", "f", " ", "/">>,
      <<"p", "h", "p", " ", "-", "S", " ", ":", "1">>,
      <<"M", "K", "F", "S">>,
      <<" ", "l", "s">>,
      <<>> }

ConfigLists == UNION { [1..n -> ConfigPool] : n \in 0..MaxStageLen }

\* Commands with quotes and brackets: parentheses in order, in reverse
\* order and unclosed, brackets in reverse order, a quote unclosed, quotes
\* around a word.
FormatPool ==
    { <<"(", "a", ")">>,
      <<")", "a", "(">>,
      <<"(", "a">>,
      <<"]", "[">>,
      <<"'", "a">>,
      <<"'", "a", "'">> }

FormatLists == UNION { [1..n -> FormatPool] : n \in 0..MaxStageLen }

\* A configuration file that has not been read.
ConfigZero ==
    /\ cfgState = "file"
    /\ validatedCmds = {}
    /\ runStage = "none"
    /\ runVia = "none"
    /\ runIdx = 0
    /\ handed = {}

\* A configuration file whose hooks section fills one stage.
ConfigStart ==
    /\ \E st \in Stages, l \in ConfigLists :
          cfgHooks = [s \in Stages |-> IF s = st THEN l ELSE <<>>]
    /\ ConfigZero

\* A configuration file whose commands hold quotes and brackets.
FormatStart ==
    /\ \E st \in Stages, l \in FormatLists :
          cfgHooks = [s \in Stages |-> IF s = st THEN l ELSE <<>>]
    /\ ConfigZero

\* config.LoadConfig, lines 148-165: the file is parsed and validated;
\* wm.Config is set only when Validate returns nil.
LoadConfig ==
    /\ UNCHANGED notConfigVars
    /\ cfgState = "file"
    /\ IF validateHooks(cfgHooks) = "ok"
       THEN /\ cfgState' = "loaded"
            /\ validatedCmds' = ValidatedPairs(cfgHooks)
       ELSE /\ cfgState' = "rejected"
            /\ validatedCmds' = validatedCmds
    /\ UNCHANGED <<cfgHooks, runStage, runVia, runIdx, handed>>

\* A caller passes the list of a stage of the loaded configuration to
\* ExecuteHooks.
ExecuteHooks_Called(st) ==
    /\ UNCHANGED notConfigVars
    /\ cfgState = "loaded"
    /\ runStage = "none"
    /\ st \in ExecuteHooksStages
    /\ Len(cfgHooks[st]) > 0
    /\ runStage' = st
    /\ runVia' = "ExecuteHooks"
    /\ runIdx' = 1
    /\ UNCHANGED <<cfgHooks, cfgState, validatedCmds, handed>>

\* ExecuteClaudePreToolUseHooks, lines 26-33.
executeHooksForDecision_Called(st) ==
    /\ UNCHANGED notConfigVars
    /\ cfgState = "loaded"
    /\ runStage = "none"
    /\ st \in DecisionStages
    /\ Len(cfgHooks[st]) > 0
    /\ runStage' = st
    /\ runVia' = "executeHooksForDecision"
    /\ runIdx' = 1
    /\ UNCHANGED <<cfgHooks, cfgState, validatedCmds, handed>>

\* One iteration of the loop of ExecuteHooks (lines 596-615: a blank command
\* is skipped, the others are trimmed) or of executeHooksForDecision
\* (hooks_claude.go lines 72-73: every command as it is written).
Stage_Step ==
    /\ UNCHANGED notConfigVars
    /\ runStage # "none"
    /\ runIdx <= Len(cfgHooks[runStage])
    /\ LET raw == cfgHooks[runStage][runIdx]
       IN  handed' =
             IF runVia = "ExecuteHooks"
             THEN IF TrimSpace(raw) = <<>> THEN handed
                  ELSE handed \cup {<<runStage, TrimSpace(raw)>>}
             ELSE handed \cup {<<runStage, raw>>}
    /\ runIdx' = runIdx + 1
    /\ UNCHANGED <<cfgHooks, cfgState, validatedCmds, runStage, runVia>>

\* The loop over the stage's list is over.
Stage_End ==
    /\ UNCHANGED notConfigVars
    /\ runStage # "none"
    /\ runIdx > Len(cfgHooks[runStage])
    /\ runStage' = "none"
    /\ runVia' = "none"
    /\ runIdx' = 0
    /\ UNCHANGED <<cfgHooks, cfgState, validatedCmds, handed>>

NextConfig ==
    \/ LoadConfig
    \/ \E st \in Stages : ExecuteHooks_Called(st)
    \/ \E st \in Stages : executeHooksForDecision_Called(st)
    \/ Stage_Step
    \/ Stage_End

----------------------------------------------------------------------------
(* The conflict scanner (GetMainBranch, GetWorktrees, CheckRebaseConflicts, *)
(* checkBranchConflicts, parseConflictFiles).                               *)

\* strings.Index, 1-based; 0 when sub does not occur in s.
Index(s, sub) ==
    IF Contains(s, sub)
    THEN 1 + CHOOSE k \in 0..(Len(s) - Len(sub)) :
                 /\ SubSeq(s, k + 1, k + Len(sub)) = sub
                 /\ \A j \in 0..(k - 1) : SubSeq(s, j + 1, j + Len(sub)) # sub
    ELSE 0

\* The words parseConflictFiles and checkBranchConflicts search for.
UpperConflict == <<"C", "O", "N", "F", "L", "I", "C", "T">>
LowerConflict == <<"c", "o", "n", "f", "l", "i", "c", "t">>
InSeparator == <<" ", "i", "n", " ">>

\* strings.Split(line, " in ")[1], defined when the separator occurs: the
\* text between the first separator and the next one.
SecondPart(line) ==
    LET rest == SubSeq(line, Index(line, InSeparator) + Len(InSeparator), Len(line))
    IN  IF Contains(rest, InSeparator)
        THEN SubSeq(rest, 1, Index(rest, InSeparator) - 1)
        ELSE rest

\* parseConflictFiles, lines 189-211, from line k on, with the files found.
RECURSIVE parseConflictFilesFrom(_, _, _)
parseConflictFilesFrom(lines, k, files) ==
    IF k > Len(lines) THEN files
    ELSE LET line == lines[k]
             file == TrimSpace(SecondPart(line))
             seen == \E n \in 1..Len(files) : files[n] = file
         IN  IF /\ Contains(line, UpperConflict)
                /\ Contains(line, InSeparator)
                /\ file # <<>>
                /\ ~seen
             THEN parseConflictFilesFrom(lines, k + 1, Append(files, file))
             ELSE parseConflictFilesFrom(lines, k + 1, files)

parseConflictFiles(lines) == parseConflictFilesFrom(lines, 1, <<>>)

\* Lines git merge-tree can write: a conflict message, a message in capitals
\* only, the entry of a conflicted path whose name holds the word, a failure.
MsgA == <<"C", "O", "N", "F", "L", "I", "C", "T", ":", " ", "M", "e", "r", "g", "e", " ", "c", "o", "n", "f", "l", "i", "c", "t", " ", "i", "n", " ", "a">>
MsgB == <<"C", "O", "N", "F", "L", "I", "C", "T", " ", "i", "n", " ", "b">>
PathLine == <<"1", " ", "c", "o", "n", "f", "l", "i", "c", "t", ".", "t", "x", "t">>
Fatal == <<"f", "a", "t", "a", "l", ":", " ", "b", "a", "d", " ", "r", "e", "f">>

\* An output is the sequence of its lines.
StdoutPool == { <<>>, <<MsgA>>, <<MsgB>>, <<PathLine>>, <<PathLine, MsgB>>,
                <<MsgA, MsgB>>, <<MsgA, MsgA>> }

StderrPool == { <<>>, <<Fatal>>, <<MsgA>> }

\* cmd.Output()'s error: nil, *exec.ExitError with status 1 (conflicts) or
\* 128 (a failure of git), or the failure to start in wt.Path.
ProbeErrors == {"nil", "exit status 1", "exit status 128", "chdir: no such file or directory"}

\* What one run of git merge-tree can give; a process that did not start
\* wrote nothing.
ProbeOutcomes ==
    { o \in [err : ProbeErrors, stdout : StdoutPool, stderr : StderrPool] :
        o.err = "chdir: no such file or directory" => (o.stdout = <<>> /\ o.stderr = <<>>) }

\* strings.Contains of an output made of lines, for a word without newline.
OutputContains(lines, word) == \E k \in 1..Len(lines) : Contains(lines[k], word)

\* A probe that drops the failures that are not conflicts.
checkBranchConflictsDropsError(wt, o) ==
    IF o.err # "nil" /\ (OutputContains(o.stderr, LowerConflict) \/ OutputContains(o.stdout, LowerConflict))
    THEN << [Branch |-> wt.Branch, WorktreePath |-> wt.Path,
             ConflictFiles |-> parseConflictFiles(o.stdout \o o.stderr),
             Error |-> ""] >>
    ELSE <<>>

\* checkBranchConflicts, lines 148-186: the sequence of the ConflictInfo it
\* returns, empty for a nil pointer.  Error is the empty string unless set;
\* LastChecked, the same checkTime for every entry of a scan, is left out.
checkBranchConflicts(wt, o) ==
    IF o.err # "nil"
    THEN IF OutputContains(o.stderr, LowerConflict) \/ OutputContains(o.stdout, LowerConflict)
         THEN << [Branch |-> wt.Branch, WorktreePath |-> wt.Path,
                  ConflictFiles |-> parseConflictFiles(o.stdout \o o.stderr),
                  Error |-> ""] >>
         ELSE << [Branch |-> wt.Branch, WorktreePath |-> wt.Path,
                  ConflictFiles |-> <<>>,
                  Error |-> "failed to check conflicts"] >>
    ELSE <<>>

\* strings.TrimPrefix.
TrimPrefix(s, prefix) ==
    IF Len(s) >= Len(prefix) /\ SubSeq(s, 1, Len(prefix)) = prefix
    THEN SubSeq(s, Len(prefix) + 1, Len(s))
    ELSE s

\* The output of git symbolic-ref is a sequence of words and white space:
\* the prefix of the remote's refs, the branch's name, the newline.
OriginPrefix == <<"refs/remotes/origin/">>

\* What git symbolic-ref refs/remotes/origin/HEAD can give: a failure when
\* the reference is missing, or the reference it points to.
SymbolicRefOutcomes ==
    { [err |-> "exit status 128", out |-> <<>>],
      [err |-> "nil", out |-> <<"refs/remotes/origin/", "develop", "\n">>] }

\* The string a sequence of one word stands for.
WordOf(s) == IF Len(s) = 1 THEN s[1] ELSE ""

\* A lookup that tries master before main.
GetMainBranchMasterFirst(r) ==
    IF r.hasMaster THEN "master"
    ELSE IF r.hasMain THEN "main"
    ELSE IF r.originHead.err = "nil"
         THEN WordOf(TrimPrefix(TrimSpace(r.originHead.out), OriginPrefix))
    ELSE "main"

\* GetMainBranch, lines 69-94: the first of main and master that show-ref
\* verifies, else the branch of origin's HEAD, else "main".
GetMainBranch(r) ==
    IF r.hasMain THEN "main"
    ELSE IF r.hasMaster THEN "master"
    ELSE IF r.originHead.err = "nil"
         THEN WordOf(TrimPrefix(TrimSpace(r.originHead.out), OriginPrefix))
    ELSE "main"

\* The repositories: refs/heads/main and refs/heads/master exist or not,
\* refs/remotes/origin/HEAD points to a branch or is missing.
Repos == [hasMain : BOOLEAN, hasMaster : BOOLEAN, originHead : SymbolicRefOutcomes]

\* Branch of a worktree; the empty string is a detached HEAD.
Branches == {"", "main", "master", "develop", "feature"}

\* The inventories: each worktree has its own path, and a branch is checked
\* out in one worktree at most.
Inventories ==
    UNION { { w \in [1..n -> [Path : 1..MaxWorktrees, Branch : Branches]] :
                /\ \A k \in 1..n : w[k].Path = k
                /\ \A j, k \in 1..n :
                      (j # k /\ w[j].Branch # "") => w[j].Branch # w[k].Branch }
            : n \in 0..MaxWorktrees }

\* A loop that passes over detached worktrees only.
SkippedDetachedOnly(wt, main) == wt.Branch = ""

\* Line 129: the worktrees the loop passes over.
Skipped(wt, main) == wt.Branch = "" \/ wt.Branch = main

\* CheckRebaseConflicts has not returned.
NoReturn == [conflicts |-> <<>>, err |-> "none"]

\* The range loop's step.
NextWorktree(k) == k + 1

\* cmd.Dir = wm.RepoPath: the repository's own directory, which is none of
\* the worktree paths 1..MaxWorktrees of the inventory.
RepoPath == 0

\* The argument lists of the git processes of a scan; a reference made by
\* fmt.Sprintf is the pair of its parts.
GitFetch == <<"fetch", "origin">>

GitShowRef(branch) == <<"show-ref", "--verify", "--quiet", <<"refs/heads/", branch>> >>

GitSymbolicRef == <<"symbolic-ref", "refs/remotes/origin/HEAD">>

GitWorktreeList == <<"worktree", "list", "--porcelain">>

\* A probe that rebases the worktree to see whether it conflicts.
ProbeCommandRebase(main, branch) == <<"rebase", <<"origin/", main>> >>

\* checkBranchConflicts, lines 150-152: the merge simulation.
ProbeCommand(main, branch) ==
    <<"merge-tree", "--write-tree", "--no-messages", <<"origin/", main>>, branch>>

\* GetMainBranch, lines 73-84: the git processes it runs for a repository.
GetMainBranchRuns(r) ==
    IF r.hasMain THEN << <<RepoPath, GitShowRef("main")>> >>
    ELSE IF r.hasMaster
         THEN << <<RepoPath, GitShowRef("main")>>, <<RepoPath, GitShowRef("master")>> >>
    ELSE << <<RepoPath, GitShowRef("main")>>, <<RepoPath, GitShowRef("master")>>,
            <<RepoPath, GitSymbolicRef>> >>

\* A commit that is the HEAD of no worktree of an inventory.
OtherCommit == 0

\* The checkout of each worktree of an inventory: its branch, the commit of
\* its HEAD, its index and its working-tree files.
CheckoutsOf(inv) ==
    [k \in 1..Len(inv) |->
        [Branch |-> inv[k].Branch, Head |-> k, Index |-> "clean", Files |-> "clean"]]

\* What a git process run in a directory does to the checkouts: fetch writes
\* remote-tracking references and objects, merge-tree --write-tree writes
\* objects, show-ref, symbolic-ref and worktree list read; rebase, merge,
\* stash, checkout and switch rewrite the checkout of their directory.
GitEffect(dir, args, c) ==
    IF dir \notin DOMAIN c THEN c
    ELSE IF args[1] \in {"rebase", "merge"}
         THEN [c EXCEPT ![dir].Head = OtherCommit, ![dir].Index = "rewritten",
                        ![dir].Files = "rewritten"]
    ELSE IF args[1] = "stash"
         THEN [c EXCEPT ![dir].Index = "rewritten", ![dir].Files = "rewritten"]
    ELSE IF args[1] \in {"checkout", "switch"}
         THEN [c EXCEPT ![dir].Branch = "switched", ![dir].Files = "rewritten"]
    ELSE c

RECURSIVE GitEffects(_, _)
GitEffects(runs, c) ==
    IF runs = <<>> THEN c
    ELSE GitEffects(Tail(runs), GitEffect(runs[1][1], runs[1][2], c))

\* The git processes of one step, run one after the other.
RunGit(runs) ==
    /\ gitRuns' = gitRuns \o runs
    /\ checkouts' = GitEffects(runs, checkouts)

ScanStart ==
    /\ repo \in Repos
    /\ inventory \in Inventories
    /\ scanPc = "fetch"
    /\ mainBranch = "unset"
    /\ worktrees = <<>>
    /\ wtIdx = 0
    /\ conflicts = <<>>
    /\ scanRet = NoReturn
    /\ probes = <<>>
    /\ gitRuns = <<>>
    /\ checkouts = CheckoutsOf(inventory)

\* Lines 103-110: git fetch origin; a failure is not fatal.
Scan_Fetch ==
    /\ UNCHANGED notScanVars
    /\ scanPc = "fetch"
    /\ \E fetchErr \in {"nil", "exit status 1"} : scanPc' = "main"
    /\ RunGit(<< <<RepoPath, GitFetch>> >>)
    /\ UNCHANGED <<repo, inventory, mainBranch, worktrees, wtIdx, conflicts,
                   scanRet, probes>>

\* Lines 113-116: GetMainBranch never returns an error.
Scan_GetMainBranch ==
    /\ UNCHANGED notScanVars
    /\ scanPc = "main"
    /\ mainBranch' = GetMainBranch(repo)
    /\ RunGit(GetMainBranchRuns(repo))
    /\ scanPc' = "list"
    /\ UNCHANGED <<repo, inventory, worktrees, wtIdx, conflicts, scanRet, probes>>

\* Lines 119-125: GetWorktrees; its error ends the scan.
Scan_GetWorktrees ==
    /\ UNCHANGED notScanVars
    /\ scanPc = "list"
    /\ RunGit(<< <<RepoPath, GitWorktreeList>> >>)
    /\ \E err \in {"nil", "failed to list worktrees"} :
          IF err = "nil"
          THEN /\ worktrees' = inventory
               /\ wtIdx' = 1
               /\ scanPc' = "loop"
               /\ scanRet' = scanRet
          ELSE /\ scanRet' = [conflicts |-> <<>>, err |-> err]
               /\ scanPc' = "returned"
               /\ UNCHANGED <<worktrees, wtIdx>>
    /\ UNCHANGED <<repo, inventory, mainBranch, conflicts, probes>>

\* Lines 127-131: a detached HEAD or the main branch is passed over.
Scan_Skip ==
    /\ UNCHANGED notScanVars
    /\ scanPc = "loop"
    /\ wtIdx <= Len(worktrees)
    /\ Skipped(worktrees[wtIdx], mainBranch)
    /\ wtIdx' = NextWorktree(wtIdx)
    /\ UNCHANGED <<repo, inventory, scanPc, mainBranch, worktrees, conflicts,
                   scanRet, probes, gitRuns, checkouts>>

\* Lines 137-141: the branch is probed and its ConflictInfo, if any, appended.
Scan_Probe ==
    /\ UNCHANGED notScanVars
    /\ scanPc = "loop"
    /\ wtIdx <= Len(worktrees)
    /\ ~Skipped(worktrees[wtIdx], mainBranch)
    /\ \E o \in ProbeOutcomes :
          LET conflictInfo == checkBranchConflicts(worktrees[wtIdx], o)
          IN  /\ probes' = Append(probes, <<wtIdx, o.err>>)
              /\ conflicts' = conflicts \o conflictInfo
    /\ RunGit(<< <<worktrees[wtIdx].Path, ProbeCommand(mainBranch, worktrees[wtIdx].Branch)>> >>)
    /\ wtIdx' = NextWorktree(wtIdx)
    /\ UNCHANGED <<repo, inventory, scanPc, mainBranch, worktrees, scanRet>>

\* Line 144: return conflicts, nil.
Scan_Return ==
    /\ UNCHANGED notScanVars
    /\ scanPc = "loop"
    /\ wtIdx > Len(worktrees)
    /\ scanRet' = [conflicts |-> conflicts, err |-> "nil"]
    /\ scanPc' = "returned"
    /\ UNCHANGED <<repo, inventory, mainBranch, worktrees, wtIdx, conflicts, probes,
                   gitRuns, checkouts>>

NextScan ==
    \/ Scan_Fetch
    \/ Scan_GetMainBranch
    \/ Scan_GetWorktrees
    \/ Scan_Skip
    \/ Scan_Probe
    \/ Scan_Return

----------------------------------------------------------------------------
(* The watch service (manager/watch_server.go).                            *)

\* The goroutines that run performCheck: runPeriodicCheck and the one each
\* POST /check spawns.
LoopProc == 0
Procs == 0..MaxRequests

\* Results of CheckRebaseConflicts in the watched repository.
EntryA == [Branch |-> "a", WorktreePath |-> 1, ConflictFiles |-> << <<"f">> >>, Error |-> ""]
EntryB == [Branch |-> "b", WorktreePath |-> 2, ConflictFiles |-> << <<"g">> >>, Error |-> ""]
EntryCFailed ==
    [Branch |-> "c", WorktreePath |-> 3, ConflictFiles |-> <<>>,
     Error |-> "failed to check conflicts"]

ScanLists == { <<EntryA>>, <<EntryA, EntryB, EntryCFailed>> }

\* performCheck's locals outside a call.
NoLocals == [checkNum |-> 0, conflicts |-> <<>>, err |-> "nil"]

\* git fetch origin, lines 103-110 of the scanner's file.
FetchError(r) == IF r = "up" THEN "nil" ELSE "exit status 1"

\* GetWorktrees' error.
ListErrors == {"nil", "failed to list worktrees"}

\* A scan that a failed fetch fails.
CheckRebaseConflictsFetchFatal(fetchErr, listErr, list) ==
    IF fetchErr # "nil" THEN [conflicts |-> <<>>, err |-> "failed to fetch"]
    ELSE IF listErr # "nil" THEN [conflicts |-> <<>>, err |-> listErr]
    ELSE [conflicts |-> list, err |-> "nil"]

\* CheckRebaseConflicts' return values, lines 103-125 and 144 of the
\* scanner's file: the error of the fetch is dropped, the error of
\* GetWorktrees returned.
CheckRebaseConflictsReturn(fetchErr, listErr, list) ==
    IF listErr # "nil" THEN [conflicts |-> <<>>, err |-> listErr]
    ELSE [conflicts |-> list, err |-> "nil"]

\* HasNewConflicts, lines 214-229 of the scanner's file.
HasNewConflicts(oldConflicts, newConflicts) ==
    LET oldMap == {oldConflicts[n].Branch :
                      n \in {m \in 1..Len(oldConflicts) :
                                Len(oldConflicts[m].ConflictFiles) > 0}}
    IN  \E n \in 1..Len(newConflicts) :
            /\ Len(newConflicts[n].ConflictFiles) > 0
            /\ newConflicts[n].Branch \notin oldMap

\* filepath.Match on sequences of characters: '*' matches any run of
\* characters other than '/', '?' one such character, any other character
\* itself (the patterns of the model have no class and no escape).
RECURSIVE GlobMatch(_, _)
GlobMatch(pattern, name) ==
    IF pattern = <<>> THEN name = <<>>
    ELSE IF Head(pattern) = "*"
         THEN \/ GlobMatch(Tail(pattern), name)
              \/ /\ name # <<>>
                 /\ Head(name) # "/"
                 /\ GlobMatch(pattern, Tail(name))
    ELSE /\ name # <<>>
         /\ \/ Head(pattern) = "?" /\ Head(name) # "/"
            \/ Head(pattern) = Head(name)
         /\ GlobMatch(Tail(pattern), Tail(name))

\* shouldIgnoreBranch, line 204: filepath.Match(pattern, branch), the
\* branches of the model having names of one character.
Match(pattern, branch) == GlobMatch(pattern, <<branch>>)

\* shouldIgnoreBranch, lines 195-208.
shouldIgnoreBranch(opts, branch) ==
    \E n \in 1..Len(opts.BranchesToIgnore) : Match(opts.BranchesToIgnore[n], branch)

\* notifyConflicts, lines 154-192: the branches a system notification is
\* sent for, in order.
RECURSIVE notifyConflictsFrom(_, _, _)
notifyConflictsFrom(opts, list, k) ==
    IF k > Len(list) THEN <<>>
    ELSE IF Len(list[k].ConflictFiles) = 0 THEN notifyConflictsFrom(opts, list, k + 1)
    ELSE IF shouldIgnoreBranch(opts, list[k].Branch) THEN notifyConflictsFrom(opts, list, k + 1)
    ELSE IF opts.NotifyMethod = "system" \/ opts.NotifyMethod = "both"
         THEN <<list[k].Branch>> \o notifyConflictsFrom(opts, list, k + 1)
         ELSE notifyConflictsFrom(opts, list, k + 1)

notifyConflicts(opts, list) ==
    IF ~opts.NotifyOnConflicts THEN <<>> ELSE notifyConflictsFrom(opts, list, 1)

\* A reader that does not wait for the writer.
CanRLockAlways(m) == TRUE

\* sync.RWMutex: Lock waits for the writer and the readers to leave, RLock
\* for the writer.
CanLock(m) == ~m.writer /\ m.readers = 0

CanRLock(m) == ~m.writer

\* A loop that goes back to waiting after a tick.
AfterTickWaitAgain == "select"

\* runPeriodicCheck, line 104: a received tick calls performCheck.
AfterTick == "begin"

\* Where a goroutine is after performCheck returns.
AfterCheck(p) == IF p = LoopProc THEN "select" ELSE "done"

\* A slice tagged with the number of the scan that built it; 0 tags the nil
\* slice of NewWatchServer.
NoConflicts == [scan |-> 0, list |-> <<>>]

\* Notifications on by the system method, and on by both methods with
\* branch b ignored.
OptionSets ==
    { [NotifyOnConflicts |-> TRUE, NotifyMethod |-> "system", BranchesToIgnore |-> <<>>],
      [NotifyOnConflicts |-> TRUE, NotifyMethod |-> "both",
       BranchesToIgnore |-> << <<"b">> >>] }

\* No response yet.
NoResponse == [path |-> "none", LastCheck |-> 0, CheckCount |-> 0, Conflicts |-> NoConflicts]

\* NewWatchServer and Start, lines 48-70: the zero state, runPeriodicCheck
\* about to run its initial check, Start waiting for ctx.Done().
WatchZero ==
    /\ mu = [writer |-> FALSE, readers |-> 0]
    /\ lastCheck = 0
    /\ lastConflicts = NoConflicts
    /\ currentConflicts = NoConflicts
    /\ checkCount = 0
    /\ now = 1
    /\ wpc = [p \in Procs |-> IF p = LoopProc THEN "begin" ELSE "unspawned"]
    /\ local = [p \in Procs |-> NoLocals]
    /\ ticker = [made |-> FALSE, stopped |-> FALSE, C |-> 0]
    /\ requests = 0
    /\ ticksReceived = 0
    /\ loopStarted = 0
    /\ cancelled = FALSE
    /\ completed = {[scan |-> 0, list |-> <<>>, at |-> 0, prev |-> <<>>]}
    /\ sent = EmptyBag
    /\ statusRead = [LastCheck |-> 0]
    /\ resp = NoResponse
    /\ startPc = "waiting"
    /\ startErr = "none"
    /\ checkResp = "none"

\* The service with its listener bound, its remote reachable and the read
\* handlers in use.
WatchStart ==
    /\ WatchZero
    /\ options \in OptionSets
    /\ rpc = "idle"
    /\ listener = "serving"
    /\ remote = "up"

\* Notification settings: on with the branches that start with b ignored,
\* off, by webhook only.
ServiceOptionSets ==
    { [NotifyOnConflicts |-> TRUE, NotifyMethod |-> "system",
       BranchesToIgnore |-> << <<"x", "?">>, <<"b", "*">> >>],
      [NotifyOnConflicts |-> FALSE, NotifyMethod |-> "system", BranchesToIgnore |-> <<>>],
      [NotifyOnConflicts |-> TRUE, NotifyMethod |-> "webhook", BranchesToIgnore |-> <<>>] }

\* The service with its listener bound and notifications by the system
\* method.
TriggerStart ==
    /\ WatchZero
    /\ options = [NotifyOnConflicts |-> TRUE, NotifyMethod |-> "system",
                  BranchesToIgnore |-> <<>>]
    /\ rpc = "off"
    /\ listener = "serving"
    /\ remote = "up"

\* The service from Start on: the listener not bound yet, the remote
\* reachable or not, no read request.
ServiceStart ==
    /\ WatchZero
    /\ options \in ServiceOptionSets
    /\ rpc = "off"
    /\ listener = "starting"
    /\ remote \in {"up", "down"}

\* The ticker of line 96 exists once the initial check has returned.
TickerAfterCheck(p) ==
    IF p = LoopProc THEN [ticker EXCEPT !.made = TRUE] ELSE ticker

\* A handler that calls performCheck itself and answers once it has
\* returned: its first step counts the scan, with no response yet.
handleCheckCallsPerformCheck(p) ==
    /\ UNCHANGED notWatchVars
    /\ UNCHANGED serviceVars
    /\ listener = "serving"
    /\ requests < MaxRequests
    /\ p # LoopProc
    /\ wpc[p] = "unspawned"
    /\ \A q \in 1..(p - 1) : wpc[q] # "unspawned"
    /\ CanLock(mu)
    /\ checkCount' = checkCount + 1
    /\ local' = [local EXCEPT ![p] = [checkNum |-> checkCount + 1, conflicts |-> <<>>,
                                      err |-> "nil"]]
    /\ wpc' = [wpc EXCEPT ![p] = "scan"]
    /\ requests' = requests + 1
    /\ UNCHANGED <<options, mu, lastCheck, lastConflicts, currentConflicts,
                   now, ticker, ticksReceived, loopStarted, cancelled,
                   completed, sent, rpc, statusRead, resp>>

\* handleCheck, lines 269-275, for a POST request: go ws.performCheck(),
\* then the response.
handleCheck(p) ==
    /\ UNCHANGED notWatchVars
    /\ UNCHANGED <<listener, startPc, startErr, remote>>
    /\ listener = "serving"
    /\ checkResp' = "check initiated"
    /\ requests < MaxRequests
    /\ p # LoopProc
    /\ wpc[p] = "unspawned"
    /\ \A q \in 1..(p - 1) : wpc[q] # "unspawned"
    /\ wpc' = [wpc EXCEPT ![p] = "begin"]
    /\ requests' = requests + 1
    /\ UNCHANGED <<options, mu, lastCheck, lastConflicts, currentConflicts,
                   checkCount, now, local, ticker, ticksReceived,
                   loopStarted, cancelled, completed, sent, rpc, statusRead,
                   resp>>

\* The goroutines of the service run until the process of the watch command
\* ends.
ProcessAlive == startPc # "exited"

\* performCheck, lines 111-114: the counter is incremented under the lock.
Check_Begin(p) ==
    /\ UNCHANGED notWatchVars
    /\ UNCHANGED serviceVars
    /\ ProcessAlive
    /\ wpc[p] = "begin"
    /\ CanLock(mu)
    /\ checkCount' = checkCount + 1
    /\ local' = [local EXCEPT ![p] = [checkNum |-> checkCount + 1, conflicts |-> <<>>,
                                      err |-> "nil"]]
    /\ loopStarted' = IF p = LoopProc THEN loopStarted + 1 ELSE loopStarted
    /\ wpc' = [wpc EXCEPT ![p] = "scan"]
    /\ UNCHANGED <<options, mu, lastCheck, lastConflicts, currentConflicts,
                   now, ticker, requests, ticksReceived, cancelled,
                   completed, sent, rpc, statusRead, resp>>

\* Lines 120-126: CheckRebaseConflicts returns an error, which ends
\* performCheck.
Check_ScanFailed(p) ==
    /\ UNCHANGED notWatchVars
    /\ UNCHANGED serviceVars
    /\ ProcessAlive
    /\ wpc[p] = "scan"
    /\ \E listErr \in ListErrors, list \in ScanLists :
          LET r == CheckRebaseConflictsReturn(FetchError(remote), listErr, list)
          IN  /\ r.err # "nil"
              /\ local' = [local EXCEPT ![p] = [NoLocals EXCEPT !.err = r.err]]
    /\ wpc' = [wpc EXCEPT ![p] = AfterCheck(p)]
    /\ ticker' = TickerAfterCheck(p)
    /\ UNCHANGED <<options, mu, lastCheck, lastConflicts, currentConflicts,
                   checkCount, now, requests, ticksReceived, loopStarted,
                   cancelled, completed, sent, rpc, statusRead, resp>>

\* Lines 120 and 128-130: CheckRebaseConflicts returns a list; ws.mu.Lock();
\* ws.lastCheck = time.Now(); ws.lastConflicts = ws.currentConflicts.
Check_Scan(p) ==
    /\ UNCHANGED notWatchVars
    /\ UNCHANGED serviceVars
    /\ ProcessAlive
    /\ wpc[p] = "scan"
    /\ \E list \in ScanLists :
          LET r == CheckRebaseConflictsReturn(FetchError(remote), "nil", list)
          IN  /\ r.err = "nil"
              /\ local' = [local EXCEPT ![p].conflicts = r.conflicts]
    /\ CanLock(mu)
    /\ mu' = [mu EXCEPT !.writer = TRUE]
    /\ lastCheck' = now
    /\ now' = now + 1
    /\ lastConflicts' = currentConflicts
    /\ wpc' = [wpc EXCEPT ![p] = "current"]
    /\ UNCHANGED <<options, currentConflicts, checkCount, ticker, requests,
                   ticksReceived, loopStarted, cancelled, completed, sent, rpc,
                   statusRead, resp>>

\* Lines 131-132: ws.currentConflicts = conflicts; ws.mu.Unlock().
Check_Current(p) ==
    /\ UNCHANGED notWatchVars
    /\ UNCHANGED serviceVars
    /\ ProcessAlive
    /\ wpc[p] = "current"
    /\ currentConflicts' = [scan |-> local[p].checkNum, list |-> local[p].conflicts]
    /\ mu' = [mu EXCEPT !.writer = FALSE]
    /\ completed' = completed \cup
          {[scan |-> local[p].checkNum, list |-> local[p].conflicts,
            at |-> lastCheck, prev |-> currentConflicts.list]}
    /\ wpc' = [wpc EXCEPT ![p] = "notify"]
    /\ UNCHANGED <<options, lastCheck, lastConflicts, checkCount, now, local,
                   ticker, requests, ticksReceived, loopStarted, cancelled,
                   sent, rpc, statusRead, resp>>

\* Lines 134-137: ws.lastConflicts is read without the lock, then
\* notifyConflicts(conflicts); performCheck returns.
Check_Notify(p) ==
    /\ UNCHANGED notWatchVars
    /\ UNCHANGED serviceVars
    /\ ProcessAlive
    /\ wpc[p] = "notify"
    /\ LET branches == IF HasNewConflicts(lastConflicts.list, local[p].conflicts)
                       THEN notifyConflicts(options, local[p].conflicts)
                       ELSE <<>>
       IN  sent' = sent (+) SetToBag({<<local[p].checkNum, branches[n]>> :
                                          n \in 1..Len(branches)})
    /\ wpc' = [wpc EXCEPT ![p] = AfterCheck(p)]
    /\ ticker' = TickerAfterCheck(p)
    /\ local' = [local EXCEPT ![p] = NoLocals]
    /\ UNCHANGED <<options, mu, lastCheck, lastConflicts, currentConflicts,
                   checkCount, now, requests, ticksReceived,
                   loopStarted, cancelled, completed, rpc, statusRead, resp>>

\* time.NewTicker: a tick is dropped when the channel, of capacity one, is
\* full.
Ticker_Tick ==
    /\ UNCHANGED notWatchVars
    /\ UNCHANGED serviceVars
    /\ ProcessAlive
    /\ ticker.made /\ ~ticker.stopped
    /\ requests < MaxRequests
    /\ requests' = requests + 1
    /\ ticker' = [ticker EXCEPT !.C = 1]
    /\ UNCHANGED <<options, mu, lastCheck, lastConflicts, currentConflicts,
                   checkCount, now, wpc, local, ticksReceived, loopStarted,
                   cancelled, completed, sent, rpc, statusRead, resp>>

\* The context of Start is cancelled.
Cancel ==
    /\ UNCHANGED notWatchVars
    /\ UNCHANGED serviceVars
    /\ ~cancelled
    /\ cancelled' = TRUE
    /\ UNCHANGED <<options, mu, lastCheck, lastConflicts, currentConflicts,
                   checkCount, now, wpc, local, ticker, requests,
                   ticksReceived, loopStarted, completed, sent, rpc,
                   statusRead, resp>>

\* Lines 102-104: case <-ticker.C: ws.performCheck().
Loop_Tick ==
    /\ UNCHANGED notWatchVars
    /\ UNCHANGED serviceVars
    /\ ProcessAlive
    /\ wpc[LoopProc] = "select"
    /\ ticker.C = 1
    /\ ticker' = [ticker EXCEPT !.C = 0]
    /\ ticksReceived' = ticksReceived + 1
    /\ wpc' = [wpc EXCEPT ![LoopProc] = AfterTick]
    /\ UNCHANGED <<options, mu, lastCheck, lastConflicts, currentConflicts,
                   checkCount, now, local, requests, loopStarted, cancelled,
                   completed, sent, rpc, statusRead, resp>>

\* Lines 100-101 and 97: case <-ctx.Done(): return, with ticker.Stop().
Loop_Done ==
    /\ UNCHANGED notWatchVars
    /\ UNCHANGED serviceVars
    /\ ProcessAlive
    /\ wpc[LoopProc] = "select"
    /\ cancelled
    /\ wpc' = [wpc EXCEPT ![LoopProc] = "stopped"]
    /\ ticker' = [ticker EXCEPT !.stopped = TRUE]
    /\ UNCHANGED <<options, mu, lastCheck, lastConflicts, currentConflicts,
                   checkCount, now, local, requests, ticksReceived,
                   loopStarted, cancelled, completed, sent, rpc, statusRead,
                   resp>>

\* handleStatus, lines 218-221: ws.mu.RLock(); LastCheck: ws.lastCheck.
Status_RLock ==
    /\ UNCHANGED notWatchVars
    /\ UNCHANGED serviceVars
    /\ listener = "serving"
    /\ rpc = "idle"
    /\ CanRLock(mu)
    /\ mu' = [mu EXCEPT !.readers = mu.readers + 1]
    /\ statusRead' = [LastCheck |-> lastCheck]
    /\ rpc' = "reading"
    /\ UNCHANGED <<options, lastCheck, lastConflicts, currentConflicts,
                   checkCount, now, wpc, local, ticker, requests,
                   ticksReceived, loopStarted, cancelled, completed, sent,
                   resp>>

\* handleStatus, lines 223-231: CheckCount, Conflicts; ws.mu.RUnlock(); the
\* status is written to the response.
Status_Respond ==
    /\ UNCHANGED notWatchVars
    /\ UNCHANGED serviceVars
    /\ ProcessAlive
    /\ rpc = "reading"
    /\ resp' = [path |-> "/status", LastCheck |-> statusRead.LastCheck,
                CheckCount |-> checkCount, Conflicts |-> currentConflicts]
    /\ mu' = [mu EXCEPT !.readers = mu.readers - 1]
    /\ statusRead' = [LastCheck |-> 0]
    /\ rpc' = "idle"
    /\ UNCHANGED <<options, lastCheck, lastConflicts, currentConflicts,
                   checkCount, now, wpc, local, ticker, requests,
                   ticksReceived, loopStarted, cancelled, completed, sent>>

\* handleConflicts, lines 255-260: one read under RLock.
handleConflicts ==
    /\ UNCHANGED notWatchVars
    /\ UNCHANGED serviceVars
    /\ listener = "serving"
    /\ CanRLock(mu)
    /\ resp' = [path |-> "/conflicts", LastCheck |-> 0, CheckCount |-> 0,
                Conflicts |-> currentConflicts]
    /\ UNCHANGED <<options, mu, lastCheck, lastConflicts, currentConflicts,
                   checkCount, now, wpc, local, ticker, requests,
                   ticksReceived, loopStarted, cancelled, completed, sent,
                   rpc, statusRead>>

\* Start, lines 73-79: ws.server.ListenAndServe() binds the port or fails;
\* the failure is printed.
Server_Listen ==
    /\ UNCHANGED notWatchVars
    /\ UNCHANGED checkVars
    /\ listener = "starting"
    /\ listener' \in {"serving", "failed"}
    /\ UNCHANGED <<startPc, startErr, remote, checkResp>>

\* http.Server.Shutdown: nil once no request is being served, the error of
\* its context when a request still is after five seconds.
ShutdownResult == IF rpc = "reading" THEN "context deadline exceeded" ELSE "nil"

\* Start, lines 82-88: <-ctx.Done(); return ws.server.Shutdown(shutdownCtx).
Start_Return ==
    /\ UNCHANGED notWatchVars
    /\ UNCHANGED checkVars
    /\ startPc = "waiting"
    /\ cancelled
    /\ listener' = IF listener = "failed" THEN "failed" ELSE "closed"
    /\ startErr' = ShutdownResult
    /\ startPc' = "returned"
    /\ UNCHANGED <<remote, checkResp>>

\* The watch command returns what Start returned and the process ends, the
\* goroutines that are still running with it.
Process_Exit ==
    /\ UNCHANGED notWatchVars
    /\ UNCHANGED checkVars
    /\ startPc = "returned"
    /\ startPc' = "exited"
    /\ UNCHANGED <<listener, startErr, remote, checkResp>>

\* handleCheck, lines 264-267, for a request that is not a POST.
handleCheck_NotAllowed ==
    /\ UNCHANGED notWatchVars
    /\ UNCHANGED checkVars
    /\ listener = "serving"
    /\ checkResp' = "method not allowed"
    /\ UNCHANGED <<listener, startPc, startErr, remote>>

NextService ==
    \/ Server_Listen
    \/ Start_Return
    \/ Process_Exit
    \/ handleCheck_NotAllowed
    \/ \E p \in Procs : handleCheck(p)
    \/ \E p \in Procs : Check_Begin(p)
    \/ \E p \in Procs : Check_ScanFailed(p)
    \/ \E p \in Procs : Check_Scan(p)
    \/ \E p \in Procs : Check_Current(p)
    \/ \E p \in Procs : Check_Notify(p)
    \/ Ticker_Tick
    \/ Cancel
    \/ Loop_Tick
    \/ Loop_Done

\* The service while it runs, with /check in use: POSTs and requests that
\* are not POSTs.
NextTrigger ==
    \/ handleCheck_NotAllowed
    \/ \E p \in Procs : handleCheck(p)
    \/ \E p \in Procs : Check_Begin(p)
    \/ \E p \in Procs : Check_ScanFailed(p)
    \/ \E p \in Procs : Check_Scan(p)
    \/ \E p \in Procs : Check_Current(p)
    \/ \E p \in Procs : Check_Notify(p)
    \/ Ticker_Tick
    \/ Loop_Tick

\* A goroutine gets the lock it waits for (sync.RWMutex hands the lock to a
\* waiter that starves), git ends, and a goroutine that can run does.
TriggerFairness ==
    \A p \in Procs :
        /\ SF_vars(Check_Begin(p))
        /\ SF_vars(Check_Scan(p) \/ Check_ScanFailed(p))
        /\ WF_vars(Check_Current(p))
        /\ WF_vars(Check_Notify(p))

NextWatch ==
    \/ \E p \in Procs : handleCheck(p)
    \/ \E p \in Procs : Check_Begin(p)
    \/ \E p \in Procs : Check_ScanFailed(p)
    \/ \E p \in Procs : Check_Scan(p)
    \/ \E p \in Procs : Check_Current(p)
    \/ \E p \in Procs : Check_Notify(p)
    \/ Ticker_Tick
    \/ Cancel
    \/ Loop_Tick
    \/ Loop_Done
    \/ Status_RLock
    \/ Status_Respond
    \/ handleConflicts

----------------------------------------------------------------------------
(* The PreToolUse decision (manager/hooks_claude.go, hooks/decision.go).   *)

\* strings.ToUpper
ToUpper(s) ==
    [k \in 1..Len(s) |->
        IF \E n \in 1..26 : LowerCase[n] = s[k]
        THEN UpperCase[CHOOSE n \in 1..26 : LowerCase[n] = s[k]]
        ELSE s[k]]

\* strings.HasPrefix
HasPrefix(s, prefix) ==
    Len(s) >= Len(prefix) /\ SubSeq(s, 1, Len(prefix)) = prefix

Approve == <<"A", "P", "P", "R", "O", "V", "E">>
Block == <<"B", "L", "O", "C", "K">>

\* What the LLM can answer.
ResponsePool ==
    { <<"A", "P", "P", "R", "O", "V", "E", " ", "o", "k">>,
      <<"[", "a", "p", "p", "r", "o", "v", "e", "]">>,
      <<" ", "B", "L", "O", "C", "K">>,
      <<"[", "B", "L", "O", "C", "K", "]", " ", "n", "o">>,
      <<"m", "a", "y", "b", "e">>,
      <<>> }

\* hooks.HookDecision{}: the undefined decision.
UndefinedDecision == [Decision |-> "", Reason |-> <<>>]

\* Lines 225 and 101: what counts as a failed hook in a decision.
HookFailed(result) == result.ExitCode # 0 \/ result.Error # "nil"

\* Lines 238-240 and 249-251: the reason that follows the word at idx.
ReasonAfter(response, idx, word) ==
    TrimSpace(TrimPrefix(TrimSpace(SubSeq(response, idx + Len(word), Len(response))),
                         <<"]">>))

\* parseDecision, lines 216-269.
parseDecision(llmResponse, results) ==
    LET response == TrimSpace(llmResponse)
        hasFailures == \E k \in 1..Len(results) : HookFailed(results[k])
        upperResponse == ToUpper(response)
    IN  IF HasPrefix(upperResponse, Approve) \/ HasPrefix(upperResponse, <<"[">> \o Approve \o <<"]">>)
        THEN [Decision |-> "approve",
              Reason |-> ReasonAfter(response, Index(upperResponse, Approve), Approve)]
        ELSE IF HasPrefix(upperResponse, Block) \/ HasPrefix(upperResponse, <<"[">> \o Block \o <<"]">>)
        THEN LET reason == ReasonAfter(response, Index(upperResponse, Block), Block)
             IN  [Decision |-> "block",
                  Reason |-> IF reason # <<>> THEN reason
                             ELSE <<"Tool use blocked based on hook analysis">>]
        ELSE IF hasFailures
        THEN [Decision |-> "block",
              Reason |-> <<"Hook scripts reported failures or warnings">>]
        ELSE UndefinedDecision

\* containsBlockSignal, lines 134-151.
blockSignals ==
    { <<"B", "L", "O", "C", "K">>, <<"D", "E", "N", "Y">>,
      <<"F", "O", "R", "B", "I", "D", "D", "E", "N">>,
      <<"N", "O", "T", " ", "A", "L", "L", "O", "W", "E", "D">>,
      <<"S", "E", "C", "U", "R", "I", "T", "Y", " ", "V", "I", "O", "L", "A", "T", "I", "O", "N">>,
      <<"P", "O", "L", "I", "C", "Y", " ", "V", "I", "O", "L", "A", "T", "I", "O", "N">> }

containsBlockSignal(output) ==
    \E signal \in blockSignals : Contains(ToUpper(output), signal)

\* makeRuleBasedDecision, lines 93-131: the loop returns at the first result
\* whose output holds a block signal; failureReasons[0] is the reason of the
\* first failed result.
makeRuleBasedDecision(results) ==
    LET signalled == {k \in 1..Len(results) :
                         \/ containsBlockSignal(results[k].Stdout)
                         \/ containsBlockSignal(results[k].Stderr)}
        failed == {k \in 1..Len(results) : HookFailed(results[k])}
        first == CHOOSE k \in failed : \A j \in failed : k <= j
    IN  IF signalled # {}
        THEN [Decision |-> "block",
              Reason |-> <<"Hook output indicates tool should be blocked">>]
        ELSE IF failed # {}
        THEN [Decision |-> "block",
              Reason |-> IF results[first].Error # "nil"
                         THEN <<"Hook failed", results[first].Error>>
                         ELSE <<"Hook exited with code", results[first].ExitCode>>]
        ELSE UndefinedDecision

\* Validate, hooks/decision.go lines 55-60.
Validate(d) == IF d.Decision \in {"", "approve", "block"} THEN "nil" ELSE "invalid decision"

\* What a hook can print on its standard output.
HookStdoutPool == { <<>>, <<"d", "e", "n", "y">> }

\* executeHooksForDecision, lines 72-87: the results executeHookCommand can
\* give for command k, each with the output the command printed.
DecisionResults(k) ==
    { r @@ [Stdout |-> out] :
        r \in {CompletedResult(k, <<"a">>, e, 0) : e \in RunErrors}
              \cup {TimedOutResult(k, <<"a">>)},
        out \in HookStdoutPool }

\* The outcomes of the AI step: ai.NewService fails, the call of the LLM
\* fails or exceeds its 30 seconds, or the LLM answers.
AIOutcomes ==
    { [service |-> "error", call |-> "none", response |-> <<>>],
      [service |-> "nil", call |-> "error", response |-> <<>>] }
    \cup { [service |-> "nil", call |-> "nil", response |-> r] : r \in ResponsePool }

NoDecision == [Decision |-> "none", Reason |-> <<>>]

DecisionStart ==
    /\ dCfg \in [hooks : 0..MaxHooks, strict_mode : BOOLEAN,
                 enabled : BOOLEAN, enableAI : BOOLEAN]
    /\ dpc = "start"
    /\ hookResults = <<>>
    /\ llm = "unused"
    /\ decision = NoDecision
    /\ printed = NoDecision
    /\ dErr = "none"

\* Lines 19-30: the input is decoded; without hooks the undefined decision
\* is printed.
Decision_Enter ==
    /\ UNCHANGED notDecisionVars
    /\ dpc = "start"
    /\ \E decodeErr \in {"nil", "failed to decode PreToolUse input"} :
          IF decodeErr # "nil"
          THEN /\ dErr' = decodeErr
               /\ dpc' = "returned"
               /\ UNCHANGED <<decision, printed>>
          ELSE IF dCfg.hooks = 0
          THEN /\ decision' = UndefinedDecision
               /\ printed' = UndefinedDecision
               /\ dErr' = "nil"
               /\ dpc' = "returned"
          ELSE /\ dpc' = "hooks"
               /\ UNCHANGED <<decision, printed, dErr>>
    /\ UNCHANGED <<dCfg, hookResults, llm>>

\* Lines 72-87: one command is run and its result appended.
Decision_ExecuteHook ==
    /\ UNCHANGED notDecisionVars
    /\ dpc = "hooks"
    /\ Len(hookResults) < dCfg.hooks
    /\ \E result \in DecisionResults(Len(hookResults) + 1) :
          hookResults' = Append(hookResults, result)
    /\ UNCHANGED <<dCfg, dpc, llm, decision, printed, dErr>>

\* Lines 35-65: the decision is made by the LLM or by rule, validated and
\* printed.
Decision_Decide ==
    /\ UNCHANGED notDecisionVars
    /\ dpc = "hooks"
    /\ Len(hookResults) = dCfg.hooks
    /\ \E o \in AIOutcomes :
          LET useAI == dCfg.enableAI /\ dCfg.enabled
              d == IF useAI /\ o.service = "nil" /\ o.call = "nil"
                   THEN parseDecision(o.response, hookResults)
                   ELSE makeRuleBasedDecision(hookResults)
          IN  /\ llm' = IF ~useAI THEN "unused"
                        ELSE IF o.service # "nil" \/ o.call # "nil" THEN "failed"
                        ELSE "answered"
              /\ decision' = d
              /\ IF Validate(d) # "nil"
                 THEN dErr' = Validate(d) /\ printed' = printed
                 ELSE dErr' = "nil" /\ printed' = d
    /\ dpc' = "returned"
    /\ UNCHANGED <<dCfg, hookResults>>

NextDecision ==
    \/ Decision_Enter
    \/ Decision_ExecuteHook
    \/ Decision_Decide

----------------------------------------------------------------------------
(* The hints that the hook engine prints for a failed command             *)
(* (manager/manager.go).                                                   *)

\* showDebuggingHints, lines 892-909: the hint printed for a failed result
\* (the commands of the model name neither npm nor docker).
showDebuggingHints(result) ==
    IF result.Success THEN "none"
    ELSE IF \/ result.ExitCode = 127
            \/ /\ result.Stderr # <<>>
               /\ Contains(ToLower(result.Stderr), <<"command", "not", "found">>)
         THEN "path"
    ELSE IF \/ result.ExitCode = 126
            \/ /\ result.Stderr # <<>>
               /\ Contains(ToLower(result.Stderr), <<"permission", "denied">>)
         THEN "permissions"
    ELSE IF result.TimedOut THEN "timeout"
    ELSE "none"

----------------------------------------------------------------------------
(* Specifications: each runs one part of the program and keeps the state   *)
(* of the other parts idle.                                                *)

HooksIdle ==
    /\ hooks = <<>>
    /\ workDirExists = TRUE
    /\ pc = "idle"
    /\ i = 0
    /\ summary = EmptySummary
    /\ retErr = "none"
    /\ gor = [k \in 1..MaxHooks |-> "none"]
    /\ done = [k \in 1..MaxHooks |-> "empty"]
    /\ killed = {}
    /\ elapsed = 0
    /\ started = <<>>

ConfigIdle ==
    /\ cfgHooks = [s \in Stages |-> <<>>]
    /\ cfgState = "idle"
    /\ validatedCmds = {}
    /\ runStage = "none"
    /\ runVia = "none"
    /\ runIdx = 0
    /\ handed = {}

ScanIdle ==
    /\ repo = [hasMain |-> TRUE, hasMaster |-> FALSE, originHead |-> [err |-> "exit status 128", out |-> <<>>]]
    /\ inventory = <<>>
    /\ scanPc = "idle"
    /\ mainBranch = "unset"
    /\ worktrees = <<>>
    /\ wtIdx = 0
    /\ conflicts = <<>>
    /\ scanRet = NoReturn
    /\ probes = <<>>
    /\ gitRuns = <<>>
    /\ checkouts = <<>>

DecisionIdle ==
    /\ dCfg = [hooks |-> 0, strict_mode |-> FALSE, enabled |-> FALSE, enableAI |-> FALSE]
    /\ dpc = "idle"
    /\ hookResults = <<>>
    /\ llm = "unused"
    /\ decision = NoDecision
    /\ printed = NoDecision
    /\ dErr = "none"

WatchIdle ==
    /\ options = [NotifyOnConflicts |-> TRUE, NotifyMethod |-> "system",
                  BranchesToIgnore |-> <<>>]
    /\ mu = [writer |-> FALSE, readers |-> 0]
    /\ lastCheck = 0
    /\ lastConflicts = NoConflicts
    /\ currentConflicts = NoConflicts
    /\ checkCount = 0
    /\ now = 1
    /\ wpc = [p \in Procs |-> "unspawned"]
    /\ local = [p \in Procs |-> NoLocals]
    /\ ticker = [made |-> FALSE, stopped |-> FALSE, C |-> 0]
    /\ requests = 0
    /\ ticksReceived = 0
    /\ loopStarted = 0
    /\ cancelled = FALSE
    /\ completed = {}
    /\ sent = EmptyBag
    /\ rpc = "off"
    /\ statusRead = [LastCheck |-> 0]
    /\ resp = NoResponse
    /\ listener = "closed"
    /\ startPc = "idle"
    /\ startErr = "none"
    /\ remote = "up"
    /\ checkResp = "none"

InitHooks == HooksStart /\ ConfigIdle /\ ScanIdle /\ WatchIdle /\ DecisionIdle

SpecHooks == InitHooks /\ [][NextHooks]_vars

SpecStage == InitHooks /\ [][NextStage]_vars

InitMissing == MissingStart /\ ConfigIdle /\ ScanIdle /\ WatchIdle /\ DecisionIdle

SpecMissing == InitMissing /\ [][NextHooks]_vars

InitConfig == ConfigStart /\ HooksIdle /\ ScanIdle /\ WatchIdle /\ DecisionIdle

SpecConfig == InitConfig /\ [][NextConfig]_vars

InitFormat == FormatStart /\ HooksIdle /\ ScanIdle /\ WatchIdle /\ DecisionIdle

SpecFormat == InitFormat /\ [][NextConfig]_vars

InitScan == ScanStart /\ HooksIdle /\ ConfigIdle /\ WatchIdle /\ DecisionIdle

SpecScan == InitScan /\ [][NextScan]_vars

InitWatch == WatchStart /\ HooksIdle /\ ConfigIdle /\ ScanIdle /\ DecisionIdle

SpecWatch == InitWatch /\ [][NextWatch]_vars

InitService == ServiceStart /\ HooksIdle /\ ConfigIdle /\ ScanIdle /\ DecisionIdle

SpecService == InitService /\ [][NextService]_vars

InitTrigger == TriggerStart /\ HooksIdle /\ ConfigIdle /\ ScanIdle /\ DecisionIdle

SpecTrigger == InitTrigger /\ [][NextTrigger]_vars /\ TriggerFairness

InitDecision == DecisionStart /\ HooksIdle /\ ConfigIdle /\ ScanIdle /\ WatchIdle

SpecDecision == InitDecision /\ [][NextDecision]_vars

----------------------------------------------------------------------------
(* Properties of the hook execution engine, checked under SpecHooks.       *)

Results == summary.Results

ResultsRange == {Results[k] : k \in 1..Len(Results)}

StartedSet == {started[k] : k \in 1..Len(started)}

NonBlankBelow(n) == {k \in 1..Len(hooks) : k < n /\ TrimSpace(hooks[k]) # <<>>}

InCommand == pc \in {"select", "gotDone", "gotTimeout"}

\* ExecuteHooks has returned from a stage that entered its loop.
StageRan == pc = "returned" /\ i > 0

\* C1: ExecuteHooks, called with a non-empty list and an existing working
\* directory, returns a non-nil error if and only if at least one command was
\* executed and every executed command failed; a run with a successful
\* command returns nil whatever the number of failures, and a run where
\* every command succeeds returns nil with FailedCount = 0.
C1_ErrorIffAllExecutedFailed ==
    StageRan =>
        /\ (retErr # "nil") <=>
              (Len(started) > 0 /\ \A r \in ResultsRange : ~r.Success)
        /\ (\E r \in ResultsRange : r.Success) => retErr = "nil"
        /\ (\A r \in ResultsRange : r.Success) =>
              (retErr = "nil" /\ summary.FailedCount = 0)

\* Two commands were executed, both failed, and the stage reports the error.
C1_Witness ==
    /\ StageRan
    /\ retErr = "all_failed"
    /\ Len(Results) = 2
    /\ \A r \in ResultsRange : ~r.Success

\* C2: in one stage run every non-blank command is executed exactly once and
\* in list order whatever the outcome of the commands before it: no failure
\* aborts the remaining commands, no command is retried, and a command is
\* started only when the results of all commands started before it have
\* been recorded.
C2_SequentialExactlyOnce ==
    /\ \A a, b \in 1..Len(started) : a < b => started[a] < started[b]
    /\ Len(Results) = (IF InCommand THEN Len(started) - 1 ELSE Len(started))
    /\ \A k \in 1..Len(Results) : Results[k].Index = started[k]
    /\ InCommand => started[Len(started)] = i
    /\ pc = "loop" => StartedSet = NonBlankBelow(i)
    /\ StageRan => StartedSet = NonBlankBelow(Len(hooks) + 1)

\* A stage whose first command failed ran its second command all the same.
C2_Witness ==
    /\ StageRan
    /\ Len(started) = 2
    /\ ~Results[1].Success
    /\ Results[2].Index = 2

\* The step in which the caller leaves the timeout case of the select.
LeavesTimeoutCase == pc = "gotTimeout" /\ pc' # "gotTimeout"

C4_ResultBounds ==
    \A r \in ResultsRange :
        /\ r.Duration <= HookTimeout + TimerSlack
        /\ r.TimedOut =>
              /\ r.ExitCode = TimeoutExitCode
              /\ ~r.Success
              /\ r.Duration = HookTimeout
        /\ ~r.TimedOut => r.Error = done[r.Index]

C4_TimeoutStep ==
    LeavesTimeoutCase =>
        /\ Len(Results') = Len(Results) + 1
        /\ Results'[Len(Results')].Index = i
        /\ Results'[Len(Results')].TimedOut
        /\ ProcessStarted(i) => i \in killed'

----------------------------------------------------------------------------
(* Properties of the configuration validator, checked under SpecConfig.    *)

\* The deny list of validateCommandSecurity.
DenyList ==
    dangerousPatterns \cup suspiciousNetworkPatterns \cup
    privilegePatterns \cup systemModificationPatterns

DenyListed(cmd) == \E p \in DenyList : Contains(cmd, p)

\* C3: for every stage, a command is handed to executeHookCommand only
\* after the validator has accepted it, and a command that contains a
\* deny-listed substring is never handed to it.
C3_RunOnlyValidated ==
    \A h \in handed :
        /\ h \in validatedCmds
        /\ ~DenyListed(h[2])

----------------------------------------------------------------------------
(* Properties of the conflict scanner, checked under SpecScan.             *)

\* The entries built so far and the entries returned.
ScanEntries ==
    {conflicts[n] : n \in 1..Len(conflicts)} \cup
    {scanRet.conflicts[n] : n \in 1..Len(scanRet.conflicts)}

\* The worktrees merge-tree was run for.
ProbedWorktrees == {probes[n][1] : n \in 1..Len(probes)}

\* The worktrees of the inventory that are neither detached nor on the
\* resolved main branch.
Eligible ==
    {k \in 1..Len(inventory) :
        inventory[k].Branch # "" /\ inventory[k].Branch # GetMainBranch(repo)}

\* C7: the scan's list has no entry for the main branch or for a detached
\* HEAD, and no such worktree is probed.
C7_MainAndDetachedLeftOut ==
    /\ \A e \in ScanEntries :
          e.Branch # "" /\ e.Branch # GetMainBranch(repo)
    /\ \A k \in ProbedWorktrees :
          inventory[k].Branch # "" /\ inventory[k].Branch # GetMainBranch(repo)

\* A scan that returned its list after probing a branch, in a repository
\* with a worktree on the main branch and a detached one left out.
C7_Witness ==
    /\ scanPc = "returned"
    /\ scanRet.err = "nil"
    /\ Len(probes) >= 1
    /\ \E k \in 1..Len(inventory) :
          inventory[k].Branch = GetMainBranch(repo) \/ inventory[k].Branch = ""
    /\ Len(scanRet.conflicts) >= 1

\* C8: every ConflictInfo of a scan has a non-empty ConflictFiles or a
\* non-empty Error.
C8_EntryHasFilesOrError ==
    \A e \in ScanEntries : e.ConflictFiles # <<>> \/ e.Error # ""

\* C9: a failed probe is recorded as an entry of its own branch, every
\* eligible worktree the loop has passed is probed exactly once, and a scan
\* that probed returns its list with a nil error.
C9_ProbeFailureIsPerBranch ==
    /\ \A n \in 1..Len(probes) :
          probes[n][2] # "nil" =>
              \E e \in ScanEntries :
                  /\ e.WorktreePath = probes[n][1]
                  /\ e.Branch = inventory[probes[n][1]].Branch
                  /\ probes[n][2] = "chdir: no such file or directory" => e.Error # ""
    /\ scanPc \in {"loop", "returned"} /\ scanRet.err # "failed to list worktrees" =>
          \A k \in Eligible :
              k < wtIdx => Cardinality({n \in 1..Len(probes) : probes[n][1] = k}) = 1
    /\ scanPc = "returned" /\ scanRet.err # "failed to list worktrees" =>
          /\ wtIdx = Len(inventory) + 1
          /\ scanRet.err = "nil"
          /\ scanRet.conflicts = conflicts

\* A returned scan whose first probe could not start and whose second probe
\* ran.
C9_Witness ==
    /\ scanPc = "returned"
    /\ Len(probes) = 2
    /\ probes[1][2] = "chdir: no such file or directory"
    /\ scanRet.err = "nil"
    /\ Len(scanRet.conflicts) >= 1

----------------------------------------------------------------------------
(* Properties of the watch service, checked under SpecWatch.               *)

\* The tagged slices the completed scans swapped in.
CompletedResults == {[scan |-> h.scan, list |-> h.list] : h \in completed}

\* C5: the conflicts of a /status or /conflicts response are the whole
\* result of one scan that has swapped its result in (or the initial empty
\* state), and the last_check of a /status response is the time of that
\* same swap.
C5_SnapshotOfOneCompletedScan ==
    /\ resp.path = "/status" =>
          \E h \in completed :
              /\ resp.Conflicts = [scan |-> h.scan, list |-> h.list]
              /\ resp.LastCheck = h.at
    /\ resp.path = "/conflicts" => resp.Conflicts \in CompletedResults
    /\ rpc = "reading" =>
          \E h \in completed :
              /\ currentConflicts = [scan |-> h.scan, list |-> h.list]
              /\ statusRead.LastCheck = h.at

\* A /status response that shows a completed scan, and a second request
\* being served while a scan that POST /check asked for is in progress.
C5_Witness ==
    /\ resp.path = "/status"
    /\ resp.LastCheck > 0
    /\ rpc = "reading"
    /\ \E p \in Procs : p # LoopProc /\ wpc[p] = "scan"

\* Notifications are enabled and no branch is ignored.
NotificationsEnabled ==
    /\ options.NotifyOnConflicts
    /\ options.NotifyMethod \in {"system", "both"}
    /\ options.BranchesToIgnore = <<>>

\* The performCheck that ran scan n has returned.
ScanFinished(n) == n <= checkCount /\ \A p \in Procs : local[p].checkNum # n

\* Branch b has conflict files in the list.
HasFiles(list, b) ==
    \E n \in 1..Len(list) : list[n].Branch = b /\ Len(list[n].ConflictFiles) > 0

\* No POST /check has been served: the scans are those of the loop, one
\* after the other.
PeriodicOnly == \A p \in Procs : p # LoopProc => wpc[p] = "unspawned"

\* C6: with notifications enabled and nothing ignored, a completed scan has
\* issued exactly one notification for each branch that has conflict files
\* in its result and had none in the previous completed scan, and none for
\* any other branch; stated for the scans of the periodic loop alone.
C6_OneNotificationPerNewConflict ==
    (NotificationsEnabled /\ PeriodicOnly) =>
        \A h \in completed :
            (h.scan >= 1 /\ ScanFinished(h.scan)) =>
                \A b \in {"a", "b", "c"} :
                    CopiesIn(<<h.scan, b>>, sent) =
                        IF HasFiles(h.list, b) /\ ~HasFiles(h.prev, b) THEN 1 ELSE 0

\* C10: the scheduling loop has started one scan more than it has received
\* ticks (the initial one), the scan of a tick just received being about to
\* start, and before its first scan starts there is no ticker to wait for.
C10_InitialScanThenOnePerTick ==
    /\ loopStarted + (IF wpc[LoopProc] = "begin" THEN 1 ELSE 0) = ticksReceived + 1
    /\ loopStarted = 0 =>
          /\ wpc[LoopProc] = "begin"
          /\ ~ticker.made
          /\ ticksReceived = 0

\* The loop, not cancelled, has received a tick and started the scan for it.
C10_Witness ==
    /\ ~cancelled
    /\ ticksReceived = 1
    /\ loopStarted = 2

\* A goroutine is part-way through performCheck: it has counted its scan
\* and has not returned.
InFlight(p) == wpc[p] \in {"scan", "current", "notify"}

\* C11: when Start has returned, no scan is part-way: every scan that was in
\* flight at the cancellation has finished, its swap included.
C11_ScansFinishBeforeStartReturns ==
    startPc = "returned" => \A p \in Procs : ~InFlight(p)

\* C13: once the listener has failed to bind, the scheduling loop takes no
\* further tick to scan on, and Start returns with an error.
C13_BindFailureStopsService ==
    [][listener = "failed" =>
          /\ ticksReceived' = ticksReceived
          /\ startPc' = "returned" => startErr' # "nil"]_vars

\* The errors a scan can end with when a failed fetch does not fail it.
EnumerationErrors == {"nil", "failed to list worktrees"}

\* C14: a scan fails only with the error of the worktree enumeration, never
\* with that of the fetch; the step in which a scan fails leaves
\* currentConflicts, lastConflicts and lastCheck as they were and, in the
\* loop, returns to the select with the ticker running; the loop stops only
\* once cancelled, and each tick it receives starts a scan.
C14_LoopSurvivesFailures ==
    [][/\ \A p \in Procs : local'[p].err \in EnumerationErrors
       /\ \A p \in Procs :
             (wpc[p] = "scan" /\ local'[p].err # "nil") =>
                 /\ wpc'[p] = AfterCheck(p)
                 /\ UNCHANGED <<currentConflicts, lastConflicts, lastCheck>>
       /\ (wpc[LoopProc] = "scan" /\ local'[LoopProc].err # "nil") =>
             ticker'.made /\ ~ticker'.stopped
       /\ wpc'[LoopProc] = "stopped" => cancelled'
       /\ ticksReceived' # ticksReceived => wpc'[LoopProc] = "begin"]_vars

\* With the remote unreachable, the initial scan failed as a whole, the loop
\* received the next tick, and the scan of that tick completed.
C14_Witness ==
    /\ remote = "down"
    /\ ~cancelled
    /\ ticksReceived = 1
    /\ checkCount = 2
    /\ lastConflicts = NoConflicts
    /\ \A h \in completed : h.scan # 1
    /\ \E h \in completed : h.scan = 2 /\ currentConflicts.scan = 2

\* The goroutines that handleCheck starts.
ManualProcs == Procs \ {LoopProc}

BranchNames == {"a", "b", "c"}

\* C15: with the switch off nothing is sent; with it on, nothing is sent for
\* a branch that an ignore pattern matches, and each finished scan of the
\* loop has sent a notification for every branch that it found conflicting,
\* that the scan before did not, and that no pattern matches.
C15_NotificationGates ==
    /\ ~options.NotifyOnConflicts => sent = EmptyBag
    /\ \A b \in BranchNames : \A n \in 1..(MaxRequests + 1) :
          shouldIgnoreBranch(options, b) => ~BagIn(<<n, b>>, sent)
    /\ (options.NotifyOnConflicts /\ PeriodicOnly) =>
          \A h \in completed :
              (h.scan >= 1 /\ ScanFinished(h.scan)) =>
                  \A b \in BranchNames :
                      (/\ HasFiles(h.list, b)
                       /\ ~HasFiles(h.prev, b)
                       /\ ~shouldIgnoreBranch(options, b)) =>
                          BagIn(<<h.scan, b>>, sent)

----------------------------------------------------------------------------
(* Properties of the hook execution engine, continued (SpecHooks).         *)

\* C16 as stated, for every list: ExecuteHooks called with a working
\* directory that does not exist has run no command and returns the error
\* of the directory.
C16_MissingWorkDirFailsEveryList ==
    (pc = "returned" /\ i = 0 /\ ~workDirExists) =>
        (retErr = "workdir" /\ started = <<>>)

\* C16, for a list that is not empty: ExecuteHooks called with a working
\* directory that does not exist returns the error of the directory in its
\* first step, with no command run and nothing counted; that error comes
\* from no later step, and a stage that has entered its loop returns only
\* after its last command, whatever becomes of the directory.
C16_MissingWorkDirFailsStage ==
    [][/\ (pc = "entry" /\ ~workDirExists /\ Len(hooks) > 0) =>
              /\ pc' = "returned"
              /\ retErr' = "workdir"
              /\ started' = <<>>
              /\ summary' = EmptySummary
       /\ (pc # "entry" /\ retErr' = "workdir") => retErr = "workdir"
       /\ (pc # "entry" /\ pc # "returned" /\ pc' = "returned") =>
              (i > Len(hooks) /\ retErr' # "workdir")]_vars

\* A stage of two commands returned the error of the directory and ran
\* nothing.
C16_Witness ==
    /\ pc = "returned"
    /\ retErr = "workdir"
    /\ Len(hooks) = 2
    /\ started = <<>>
    /\ gor = [k \in 1..MaxHooks |-> "none"]

\* The positions below n that hold a blank command.
BlankBelow(n) == {k \in 1..Len(hooks) : k < n /\ TrimSpace(hooks[k]) = <<>>}

\* C17: the blank commands passed so far are counted in SkippedCount, none
\* of them was started or has a result, and every other command passed has
\* one result; when the stage has run, the three counters add up to the
\* length of the list, and a stage in which no command failed, blank ones
\* included, returns nil.
C17_BlankCommandsSkipped ==
    /\ pc = "loop" =>
          /\ summary.SkippedCount = Cardinality(BlankBelow(i))
          /\ Len(Results) = Cardinality(NonBlankBelow(i))
    /\ StartedSet \cap BlankBelow(Len(hooks) + 1) = {}
    /\ \A r \in ResultsRange : TrimSpace(hooks[r.Index]) # <<>>
    /\ \A a, b \in 1..Len(Results) : Results[a].Index = Results[b].Index => a = b
    /\ summary.FailedCount = Cardinality({k \in 1..Len(Results) : ~Results[k].Success})
    /\ StageRan =>
          /\ summary.SuccessCount + summary.FailedCount + summary.SkippedCount
                = Len(hooks)
          /\ summary.SkippedCount = Cardinality(BlankBelow(Len(hooks) + 1))
          /\ {r.Index : r \in ResultsRange} = NonBlankBelow(Len(hooks) + 1)
          /\ (\A r \in ResultsRange : r.Success) => retErr = "nil"

\* A stage of a blank command and a command that succeeded returned nil.
C17_Witness ==
    /\ StageRan
    /\ retErr = "nil"
    /\ summary.SkippedCount = 1
    /\ summary.SuccessCount = 1
    /\ summary.FailedCount = 0
    /\ Len(Results) = 1

\* The stage has run, none of its commands is blank, exactly one of them
\* failed and the others succeeded.
ExactlyOneFailed ==
    /\ StageRan
    /\ BlankBelow(Len(hooks) + 1) = {}
    /\ Len(Results) = Len(hooks)
    /\ Cardinality({k \in 1..Len(Results) : ~Results[k].Success}) = 1

\* The result the claim states for a stage of N commands with one failure.
OneFailureTolerated ==
    /\ retErr = "nil"
    /\ summary.FailedCount = 1
    /\ summary.SuccessCount = Len(hooks) - 1

MissingBinaryResult(r) ==
    /\ BinaryMissing(hooks[r.Index])
    /\ \/ parseCommand(hooks[r.Index]) = "direct" /\ r.Error = "starterr"
       \/ parseCommand(hooks[r.Index]) = "shell" /\ r.Error = "notfound"

\* C20: the result of a command whose binary is missing is a failed one with
\* its error set, the hint printed for it is the one about the PATH, run
\* directly or through the shell, and the stage goes on to its end.
C20_MissingBinaryHinted ==
    /\ \A r \in ResultsRange :
          MissingBinaryResult(r) =>
              /\ ~r.Success
              /\ r.Error # "nil"
              /\ showDebuggingHints(r) = "path"
    /\ StageRan => StartedSet = NonBlankBelow(Len(hooks) + 1)

----------------------------------------------------------------------------
(* Properties of the format check of the validator (SpecFormat).           *)

\* The number of openers less the number of closers among the first k
\* characters.
DepthAt(cmd, k, opener, closer) ==
    Cardinality({j \in 1..k : cmd[j] = opener}) -
    Cardinality({j \in 1..k : cmd[j] = closer})

\* Every closer follows an opener of its own and every opener is closed.
Nested(cmd, opener, closer) ==
    /\ \A k \in 1..Len(cmd) : DepthAt(cmd, k, opener, closer) >= 0
    /\ DepthAt(cmd, Len(cmd), opener, closer) = 0

\* Quotes come in pairs, and parentheses, braces and brackets are nested.
ProperlyBalanced(cmd) ==
    /\ Count(cmd, "'") % 2 = 0
    /\ Count(cmd, "\"") % 2 = 0
    /\ Nested(cmd, "(", ")")
    /\ Nested(cmd, "{", "}")
    /\ Nested(cmd, "[", "]")

\* The stages whose commands the validator looks at.
ValidatedStageSet == {ValidatedStages[n] : n \in 1..Len(ValidatedStages)}

\* C19: a configuration that the validator has accepted holds, in the
\* stages it validates, only commands whose quotes, parentheses, braces and
\* brackets are properly balanced.
C19_UnbalancedRejected ==
    cfgState = "loaded" =>
        \A st \in ValidatedStageSet : \A k \in 1..Len(cfgHooks[st]) :
            ProperlyBalanced(TrimSpace(cfgHooks[st][k]))


(***************************************************************************)
(* Properties of the main-branch lookup, checked under SpecScan.           *)

\* The scan is past its call of GetMainBranch.
MainBranchResolved == scanPc \in {"list", "loop", "returned"}

\* C21: the name GetMainBranch gives is "main" if the local branch main
\* exists, else "master" if the local branch master exists, else the branch
\* origin's symbolic HEAD names if it resolves, else "main"; the lookup never
\* ends the scan with an error, and the name is never empty.
C21_MainBranchPreferenceOrder ==
    MainBranchResolved =>
        /\ repo.hasMain => mainBranch = "main"
        /\ (~repo.hasMain /\ repo.hasMaster) => mainBranch = "master"
        /\ (~repo.hasMain /\ ~repo.hasMaster /\ repo.originHead.err = "nil") =>
              repo.originHead.out = OriginPrefix \o <<mainBranch, "\n">>
        /\ (~repo.hasMain /\ ~repo.hasMaster /\ repo.originHead.err # "nil") =>
              mainBranch = "main"
        /\ mainBranch \notin {"", "unset"}
        /\ scanPc = "list" => scanRet = NoReturn

\* A scan that returned after resolving origin's HEAD in a repository with
\* neither main nor master, where a worktree is on master and was probed.
C21_Witness ==
    /\ scanPc = "returned"
    /\ scanRet.err = "nil"
    /\ ~repo.hasMain
    /\ ~repo.hasMaster
    /\ mainBranch = "develop"
    /\ \E n \in 1..Len(probes) : inventory[probes[n][1]].Branch = "master"


(***************************************************************************)
(* Frame of a scan, checked under SpecScan.                                *)

\* The subcommands of git that read the repository only.
ReadOnlySubcommands == {"show-ref", "symbolic-ref", "worktree"}

\* The runs of a subcommand, as places of the history.
RunsOf(sub) == {n \in 1..Len(gitRuns) : gitRuns[n][2][1] = sub}

\* C22: a scan leaves every worktree's branch, HEAD commit, index and files
\* unchanged; besides queries, the git processes it runs are one fetch in
\* the repository and one merge-tree per eligible worktree, in that
\* worktree; no stash, checkout, switch, rebase or merge is ever run.
C22_ScanLeavesWorktreesUnchanged ==
    /\ checkouts = CheckoutsOf(inventory)
    /\ \A n \in 1..Len(gitRuns) :
          gitRuns[n][2][1] \in {"fetch", "merge-tree"} \cup ReadOnlySubcommands
    /\ Cardinality(RunsOf("fetch")) <= 1
    /\ \A n \in RunsOf("fetch") : gitRuns[n][1] = RepoPath
    /\ \A n \in RunsOf("merge-tree") :
          /\ gitRuns[n][1] \in Eligible
          /\ gitRuns[n][2][2] = "--write-tree"
    /\ \A m, n \in RunsOf("merge-tree") : gitRuns[m][1] = gitRuns[n][1] => m = n
    /\ scanPc = "returned" /\ scanRet.err = "nil" =>
          {gitRuns[n][1] : n \in RunsOf("merge-tree")} = Eligible

\* A scan that returned after fetching and simulating the merge of two
\* worktrees, one of which conflicted.
C22_Witness ==
    /\ scanPc = "returned"
    /\ Cardinality(RunsOf("fetch")) = 1
    /\ Cardinality(RunsOf("merge-tree")) = 2
    /\ Len(scanRet.conflicts) >= 1
    /\ checkouts = CheckoutsOf(inventory)


(***************************************************************************)
(* Properties of the PreToolUse decision, checked under SpecDecision.      *)

\* A decision was printed for a run in which a hook failed.
PrintedAfterFailure ==
    /\ dpc = "returned"
    /\ printed # NoDecision
    /\ \E k \in 1..Len(hookResults) :
          \/ hookResults[k].ExitCode # 0
          \/ hookResults[k].Error # "nil"
          \/ hookResults[k].TimedOut

\* C23: with ai_decision.strict_mode set, a PreToolUse run in which a hook
\* failed prints the decision "block", whatever the LLM answered.
C23_StrictModeBlocksOnFailure ==
    (dCfg.strict_mode /\ PrintedAfterFailure) => printed.Decision = "block"


(***************************************************************************)
(* Processes of a stage, checked under SpecHooks.                          *)

\* The commands whose process is running.
RunningProcesses == {k \in 1..Len(hooks) : ProcessRunning(k)}

\* C24: at most one hook command process is running at any time during a
\* stage, also after a command timed out and was sent a kill.
C24_AtMostOneProcessRunning == Cardinality(RunningProcesses) <= 1


(***************************************************************************)
(* Concurrent scans of the watch service, checked under SpecWatch.         *)

\* The scan a goroutine is about to decide on compares its result with the
\* conflict set its swap replaced.
ComparesReplacedSet(p) ==
    \E h \in completed :
        /\ h.scan = local[p].checkNum
        /\ lastConflicts.list = h.prev

\* A branch of a swapped result that had no conflict files in the result it
\* replaced.
NewlyConflicting(h, b) == HasFiles(h.list, b) /\ ~HasFiles(h.prev, b)

\* C25: under any interleaving of periodic and manual scans, a scan decides
\* on new conflicts against exactly the conflict set its swap replaced, and
\* every branch that becomes newly conflicting in the snapshot and is not
\* ignored has been notified once no scan is in progress.
C25_NewConflictsNotifiedUnderInterleaving ==
    /\ \A p \in Procs : wpc[p] = "notify" => ComparesReplacedSet(p)
    /\ (NotificationsEnabled /\ \A p \in Procs : ~InFlight(p)) =>
          \A h \in completed :
              h.scan >= 1 =>
                  \A b \in {"a", "b", "c"} :
                      NewlyConflicting(h, b) =>
                          \E s \in 1..checkCount : CopiesIn(<<s, b>>, sent) >= 1


\* The goroutines part-way through performCheck.
ScansInProgress == {p \in Procs : InFlight(p)}

\* C26: at most one scan is in progress at any time, and the results are
\* swapped into the snapshot in the order in which their scans started.
C26_OneScanAtATime ==
    /\ Cardinality(ScansInProgress) <= 1
    /\ \A g, h \in completed : g.scan < h.scan => g.at < h.at


\* The scans whose results have been swapped into the snapshot.
SwappedScans == {h \in completed : h.scan >= 1}

\* C27: in every state that GET /status reads under the read lock,
\* check_count is the number of scans whose results have been swapped into
\* the snapshot, so that a positive check_count comes with the last_check
\* and the conflicts of a completed scan.
C27_CheckCountCountsSwappedScans ==
    rpc = "reading" =>
        /\ checkCount = Cardinality(SwappedScans)
        /\ checkCount > 0 =>
              /\ statusRead.LastCheck > 0
              /\ currentConflicts.scan >= 1


\* The branches that became conflicting with the swap h.
NewBranches(h) == {b \in BranchNames : NewlyConflicting(h, b)}

\* C28: a completed scan of the periodic loop whose newly conflicting
\* branches all match an ignore pattern has sent no notification, neither
\* for them nor for the branches that were conflicting before.
C28_IgnoredNewConflictNotifiesNothing ==
    PeriodicOnly =>
        \A h \in completed :
            ( /\ h.scan >= 1
              /\ ScanFinished(h.scan)
              /\ NewBranches(h) # {}
              /\ \A b \in NewBranches(h) : shouldIgnoreBranch(options, b) ) =>
                \A b \in BranchNames : CopiesIn(<<h.scan, b>>, sent) = 0


(***************************************************************************)
(* Results of commands, checked under SpecMissing.                         *)

\* C29: every recorded result is successful exactly when its exit code is
\* 0: a successful result has ExitCode 0, no Error and is not timed out, and
\* every failed result has a non-zero ExitCode.
C29_SuccessIffExitCodeZero ==
    \A r \in ResultsRange :
        /\ r.Success <=> r.ExitCode = 0
        /\ r.Success => (r.Error = "nil" /\ ~r.TimedOut)
        /\ ~r.Success => r.ExitCode # 0


(***************************************************************************)
(* The goroutine of a command, checked under SpecHooks.                    *)

\* The commands executeHookCommand has returned a result for.
ReturnedCommands == {r.Index : r \in ResultsRange}

\* The goroutine of command k may still write the output buffers: it has
\* not entered cmd.Run yet or is inside it.
MayWriteBuffers(k) == gor[k] \in {"spawned", "running"}

\* C30: once executeHookCommand has returned for a command, on the
\* completion path and on the timeout path alike, the goroutine that runs
\* the command has stopped writing the output buffers.
C30_GoroutineStoppedAtReturn ==
    \A k \in ReturnedCommands : ~MayWriteBuffers(k)

====
